---- MODULE Spec2Model ----
(***************************************************************************)
(* State-machine model of the BennSauce game server (src/server.js, the    *)
(* revision at lines 1040-3157): map rooms and player presence, the        *)
(* server-driven monsters, combat arbitration, ground items and the        *)
(* per-map event fan-out.                                                  *)
(*                                                                         *)
(* Conventions.  A JavaScript object used as a dictionary is a function    *)
(* whose DOMAIN is the set of its keys.  A string the code tests for       *)
(* truthiness is "" when it is missing; a map id is a sequence of          *)
(* characters (so that startsWith is computed), <<>> when missing.         *)
(* An optional number is <<>> (undefined) or <<n>>.  Dictionary keys are   *)
(* ordinary property names (not array indices, not names inherited from    *)
(* Object.prototype).  Times are milliseconds.  Fields of the source that  *)
(* no handler modelled here reads (y, appearance, jump data) are left out. *)
(***************************************************************************)
EXTENDS Integers, Sequences, FiniteSets, TLC

VARIABLES
    now,                  \* Date.now()
    connected,            \* socket id -> "new" | "open" | "closed"
    currentPlayer,        \* socket id -> the closure's currentPlayer (NoPlayer = null)
    currentMapId,         \* socket id -> the closure's currentMapId (<<>> = null)
    rooms,                \* socket.io rooms: map id -> set of subscribed sockets
    maps,                 \* { mapId: { odId: playerData } }
    playerSockets,        \* { odId: socketId }
    mapMonsters,          \* { mapId: { monsterId: monsterData } }
    monsterDamage,        \* { monsterId: <<[odId, damage], ...>> } in insertion order
    nextMonsterId,
    mapSpawnData,         \* { mapId: mapData }
    rateLimiters,         \* { odId: { attacks, pickups, positions } }
    authorizedGMs,
    currentEliteMonsters, \* { mapId: monsterId }
    mapGroundItems,       \* { mapId: { itemId: item } }
    nextDropId,           \* stands for the unique suffix of a minted item id
    timers,               \* pending setTimeout callbacks of killMonster
    monsterAIInterval,    \* TRUE once the AI loop was started
    eliteCheckInterval,   \* TRUE once the elite check timer was started
    out,                  \* the events emitted by the last step, in order
    last,                 \* the request the last step served
    hist                  \* history of what was broadcast / applied (observers only)

vars == <<now, connected, currentPlayer, currentMapId, rooms, maps, playerSockets,
          mapMonsters, monsterDamage, nextMonsterId, mapSpawnData, rateLimiters,
          authorizedGMs, currentEliteMonsters, mapGroundItems, nextDropId, timers,
          monsterAIInterval, eliteCheckInterval, out, last, hist>>

-----------------------------------------------------------------------------
(* Bounds of the model *)

MaxClockSteps == 1
MaxMoves == 3
MaxMonsterId == 3
MaxDropId == 2
MaxCombatAttacks == 2
MaxPickups == 2
MaxAmount == 30
MaxTicks == 2
MaxMembers == 5
MaxBurst == 31

Sockets == {1, 2}
OdIds == {"A", "B"}
Town == <<"t", "o", "w", "n">>
PqStage == <<"p", "q", "1">>
MapIds == {Town, PqStage}
MonsterIds == 1..(MaxMonsterId + 1)
DropIds == 1..(MaxDropId + 1)

-----------------------------------------------------------------------------
(* CONFIG and the constants of the handlers *)

PLAYER_TIMEOUT == 172800000
RESPAWN_TIME == 8000
BOSS_RESPAWN_TIME == 300000
PQ_CORPSE_DELAY == 1000
MAX_DAMAGE_PER_HIT == 50000
MAX_ATTACKS_PER_SECOND == 10
MAX_PICKUPS_PER_SECOND == 20
MAX_POSITION_UPDATES_PER_SECOND == 30
RATE_LIMIT_WINDOW == 1000
DEFAULT_MAP_WIDTH == 1366
DEFAULT_MAX_HP == 100
DEFAULT_WIDTH == 40
DEFAULT_SPEED_TENTHS == 8
DEFAULT_X == 400
EDGE_BUFFER == 50
MIN_PATROL_DISTANCE == 80
PINNED_RADIUS == 10
FALLBACK_PATROL_RADIUS == 150
SHINY_HP_MULTIPLIER == 3
KNOCKBACK_FORCE == 6
KNOCKBACK_TICKS == 5
KNOCKBACK_DURATION == 500
HP_CORRECTION_THRESHOLD == 50
ELITE_GOLD_MIN == 50000
ELITE_GOLD_SPAN == 50000
SPEED_MULTIPLIER_TENTHS == 42
CHASE_TIMEOUT == 5000
CHASE_RANGE == 500
TARGET_OFFSET == 15
CHASE_FACTOR_TENTHS == 15
CHASE_PATROL_RADIUS == 100
TURN_MARGIN == 30
ELITE_HP_MULTIPLIER == 100
ELITE_DAMAGE_MULTIPLIER == 3
DEFAULT_DAMAGE == 10

ExcludedMapPrefixes == {<<"d", "e", "w", "d", "r", "o", "p">>, <<"p", "q">>}
PqPrefix == <<"p", "q">>

-----------------------------------------------------------------------------
(* JavaScript helpers *)

StartsWith(s, prefix) ==
    Len(s) >= Len(prefix) /\ SubSeq(s, 1, Len(prefix)) = prefix

Has(obj, k) == k \in DOMAIN obj
Put(obj, k, v) == [x \in DOMAIN obj \cup {k} |-> IF x = k THEN v ELSE obj[x]]
Del(obj, k) == [x \in DOMAIN obj \ {k} |-> obj[x]]
EmptyObj == [x \in {} |-> 0]

Max(a, b) == IF a >= b THEN a ELSE b
Min(a, b) == IF a <= b THEN a ELSE b
Abs(a) == IF a >= 0 THEN a ELSE 0 - a
Or(a, b) == IF a # 0 THEN a ELSE b          \* a || b on numbers
IsDef(opt) == opt # <<>>
Truthy(opt) == IsDef(opt) /\ opt[1] # 0     \* if (n) on an optional number

NoPlayer ==
    [odId |-> "", name |-> "", mapId |-> <<>>, x |-> 0, partyId |-> "",
     lastUpdate |-> 0, socketId |-> 0]

(* One emitted event: its name, the sockets it is delivered to, its payload. *)
Event(ev, to) ==
    [ev |-> ev, to |-> to, odId |-> "", id |-> 0, n |-> 0, hp |-> 0,
     flag |-> FALSE, ids |-> {}, members |-> {}, name |-> "", map |-> <<>>, count |-> 0]

Emit(S, e) == [S EXCEPT !.out = Append(@, e)]

(* io.to(room) and socket.to(room) of socket.io *)
IoTo(S, room) == IF room \in DOMAIN S.rooms THEN S.rooms[room] ELSE {}
SocketTo(S, c, room) == IoTo(S, room) \ {c}

(* The server's state as one value, so that a handler is a function on it. *)
St ==
    [now |-> now, connected |-> connected, currentPlayer |-> currentPlayer,
     currentMapId |-> currentMapId, rooms |-> rooms, maps |-> maps,
     playerSockets |-> playerSockets, mapMonsters |-> mapMonsters,
     monsterDamage |-> monsterDamage, nextMonsterId |-> nextMonsterId,
     mapSpawnData |-> mapSpawnData, rateLimiters |-> rateLimiters,
     authorizedGMs |-> authorizedGMs, currentEliteMonsters |-> currentEliteMonsters,
     mapGroundItems |-> mapGroundItems, nextDropId |-> nextDropId, timers |-> timers,
     monsterAIInterval |-> monsterAIInterval, eliteCheckInterval |-> eliteCheckInterval,
     out |-> <<>>, last |-> last, hist |-> hist]

Commit(S) ==
    /\ now' = S.now
    /\ connected' = S.connected
    /\ currentPlayer' = S.currentPlayer
    /\ currentMapId' = S.currentMapId
    /\ rooms' = S.rooms
    /\ maps' = S.maps
    /\ playerSockets' = S.playerSockets
    /\ mapMonsters' = S.mapMonsters
    /\ monsterDamage' = S.monsterDamage
    /\ nextMonsterId' = S.nextMonsterId
    /\ mapSpawnData' = S.mapSpawnData
    /\ rateLimiters' = S.rateLimiters
    /\ authorizedGMs' = S.authorizedGMs
    /\ currentEliteMonsters' = S.currentEliteMonsters
    /\ mapGroundItems' = S.mapGroundItems
    /\ nextDropId' = S.nextDropId
    /\ timers' = S.timers
    /\ monsterAIInterval' = S.monsterAIInterval
    /\ eliteCheckInterval' = S.eliteCheckInterval
    /\ out' = S.out
    /\ last' = S.last
    /\ hist' = S.hist

-----------------------------------------------------------------------------
(* Rate limiter and damage validator *)

NewTracker == [attacks |-> <<>>, pickups |-> <<>>, positions |-> <<>>]

RECURSIVE Evict(_, _)
Evict(tracker, t) ==
    IF Len(tracker) > 0 /\ t - tracker[1] > RATE_LIMIT_WINDOW
    THEN Evict(Tail(tracker), t)
    ELSE tracker

(* The tracker of (odId, action) after the eviction loop of checkRateLimit. *)
Evicted(S, odId, action) ==
    Evict((IF Has(S.rateLimiters, odId) THEN S.rateLimiters[odId] ELSE NewTracker)[action],
          S.now)

(* The value checkRateLimit returns. *)
RateAllowed(S, odId, action, limit) == Len(Evicted(S, odId, action)) < limit

(* The state checkRateLimit leaves. *)
checkRateLimit(S, odId, action, limit) ==
    LET entry == IF Has(S.rateLimiters, odId) THEN S.rateLimiters[odId] ELSE NewTracker
        kept == Evicted(S, odId, action)
        tracker == IF Len(kept) >= limit THEN kept ELSE Append(kept, S.now)
    IN [S EXCEPT !.rateLimiters = Put(@, odId, [entry EXCEPT ![action] = tracker])]

(* A client-asserted damage: kind "num" with the value in halves (half = 2 * damage),
   or "str" (not a number), "NaN", "inf" (+Infinity, which JSON.parse reads from 1e999),
   "ninf" (-Infinity). *)
Num(n) == [kind |-> "num", half |-> 2 * n]

validateDamage(damage) ==
    IF damage.kind = "str" \/ damage.kind = "NaN" \/ damage.kind = "ninf"
       \/ (damage.kind = "num" /\ damage.half < 0)
    THEN 0
    ELSE IF damage.kind = "inf" \/ damage.half > 2 * MAX_DAMAGE_PER_HIT
    THEN MAX_DAMAGE_PER_HIT
    ELSE damage.half \div 2

(* damage > validatedDamage, as JavaScript compares them *)
DamageGreater(damage, validatedDamage) ==
    CASE damage.kind = "num" -> damage.half > 2 * validatedDamage
      [] damage.kind = "inf" -> TRUE
      [] OTHER -> FALSE

cleanupRateLimiter(S, odId) == [S EXCEPT !.rateLimiters = Del(@, odId)]

-----------------------------------------------------------------------------
(* Monsters *)

(* monsterTypeData when the catalog has no entry for the type: {} *)
NoTypeData ==
    [hp |-> 0, speed |-> 0, width |-> 0, aiType |-> "", isMiniBoss |-> FALSE,
     hasLoot |-> FALSE, loot |-> <<>>]

(* mapSpawnData[mapId] when it is undefined *)
NoMapData ==
    [hasMonsters |-> FALSE, monsters |-> <<>>, spawnPositions |-> <<>>, mapWidth |-> 0,
     hasTypes |-> FALSE, monsterTypes |-> EmptyObj]

SpawnDataOf(S, mapId) ==
    IF Has(S.mapSpawnData, mapId) THEN S.mapSpawnData[mapId] ELSE NoMapData

(* mapSpawnData[mapId]?.monsterTypes?.[type], and whether it is defined *)
HasTypeData(S, mapId, type) ==
    SpawnDataOf(S, mapId).hasTypes /\ Has(SpawnDataOf(S, mapId).monsterTypes, type)
TypeDataOf(S, mapId, type) ==
    IF HasTypeData(S, mapId, type) THEN SpawnDataOf(S, mapId).monsterTypes[type]
    ELSE NoTypeData

IsExcludedMap(mapId) == \E prefix \in ExcludedMapPrefixes : StartsWith(mapId, prefix)

(* Math.random() * (mapWidth - 100) + 50 for the draw u / RandomGrain *)
RandomGrain == 2
RandomX(mapWidth, u) == ((u * (mapWidth - 100)) \div RandomGrain) + 50

(* The patrol bounds spawnMonster computes: <<patrolMinX, patrolMaxX, pinned>> *)
PatrolBounds(spawnerData, x, mapWidth) ==
    IF IsDef(spawnerData.surface)
    THEN LET surfaceX == spawnerData.surface[1]
             surfaceWidth == spawnerData.surface[2]
             surfaceLeft == surfaceX + EDGE_BUFFER
             surfaceRight == surfaceX + surfaceWidth - EDGE_BUFFER
             center == surfaceX + (surfaceWidth \div 2)
         IN IF surfaceRight - surfaceLeft >= MIN_PATROL_DISTANCE
            THEN <<Max(0, surfaceLeft), Min(mapWidth - EDGE_BUFFER, surfaceRight), FALSE>>
            ELSE <<center - PINNED_RADIUS, center + PINNED_RADIUS, TRUE>>
    ELSE <<Max(0, x - FALLBACK_PATROL_RADIUS),
           Min(mapWidth - EDGE_BUFFER, x + FALLBACK_PATROL_RADIUS), FALSE>>

(* spawnerData: x and surface optional, mapWidth and maxHp 0 when undefined.
   rnd: the draws of Math.random() (dir, shiny, u). *)
spawnMonster(S, mapId, type, spawnerData, rnd) ==
    LET monsterId == S.nextMonsterId
        mapWidth == Or(spawnerData.mapWidth, Or(SpawnDataOf(S, mapId).mapWidth, DEFAULT_MAP_WIDTH))
        monsterTypeData == TypeDataOf(S, mapId, type)
        maxHp == Or(monsterTypeData.hp, Or(spawnerData.maxHp, DEFAULT_MAX_HP))
        speed == Or(monsterTypeData.speed, DEFAULT_SPEED_TENTHS)
        x == IF IsDef(spawnerData.x) THEN spawnerData.x[1] ELSE RandomX(mapWidth, rnd.u)
        aiType == IF monsterTypeData.aiType = "" THEN "patrolling" ELSE monsterTypeData.aiType
        bounds == PatrolBounds(spawnerData, x, mapWidth)
        shiny == /\ ~monsterTypeData.isMiniBoss
                 /\ type # "testDummy"
                 /\ ~IsExcludedMap(mapId)
                 /\ rnd.shiny
        hp == IF shiny THEN maxHp * SHINY_HP_MULTIPLIER ELSE maxHp
        monster ==
            [id |-> monsterId, type |-> type, x |-> x, hp |-> hp, maxHp |-> hp,
             direction |-> rnd.dir,
             aiState |-> IF aiType = "static" \/ bounds[3] THEN "idle" ELSE "patrolling",
             aiType |-> aiType, velocityX |-> 0, speed |-> speed, isDead |-> FALSE,
             isMiniBoss |-> monsterTypeData.isMiniBoss, isEliteMonster |-> FALSE,
             isShiny |-> shiny, width |-> Or(monsterTypeData.width, DEFAULT_WIDTH),
             mapWidth |-> mapWidth, lastUpdate |-> S.now, spawnX |-> x,
             patrolSurface |-> spawnerData.surface,
             patrolMinX |-> bounds[1], patrolMaxX |-> bounds[2],
             targetPlayer |-> "", lastInteractionTime |-> 0, knockbackEndTime |-> 0,
             damage |-> 0, originalMaxHp |-> 0, originalDamage |-> 0]
        S1 == [S EXCEPT !.nextMonsterId = @ + 1,
                        !.mapMonsters[mapId] = Put(@, monsterId, monster),
                        !.monsterDamage = Put(@, monsterId, <<>>)]
    IN Emit(S1, [Event("monsterSpawned", IoTo(S1, mapId)) EXCEPT
                     !.id = monsterId, !.map = mapId, !.hp = hp])

(* The spawns initializeMapMonsters asks for, in order: <<[type, spawnerData], ...>> *)
RECURSIVE Repeat(_, _)
Repeat(v, n) == IF n <= 0 THEN <<>> ELSE <<v>> \o Repeat(v, n - 1)

RECURSIVE FallbackSpawns(_, _)
FallbackSpawns(mapData, i) ==
    IF i > Len(mapData.monsters) THEN <<>>
    ELSE Repeat([type |-> mapData.monsters[i].type,
                 data |-> [x |-> <<>>, surface |-> <<>>, mapWidth |-> mapData.mapWidth,
                           maxHp |-> 0]],
                Or(mapData.monsters[i].count, 5))
         \o FallbackSpawns(mapData, i + 1)

SpawnList(mapData) ==
    IF Len(mapData.spawnPositions) > 0
    THEN [i \in 1..Len(mapData.spawnPositions) |->
            [type |-> mapData.spawnPositions[i].type,
             data |-> [x |-> <<mapData.spawnPositions[i].x>>,
                       surface |-> mapData.spawnPositions[i].surface,
                       mapWidth |-> mapData.mapWidth, maxHp |-> 0]]]
    ELSE FallbackSpawns(mapData, 1)

RECURSIVE SpawnAll(_, _, _, _, _)
SpawnAll(S, mapId, list, i, rnd) ==
    IF i > Len(list) THEN S
    ELSE SpawnAll(spawnMonster(S, mapId, list[i].type, list[i].data, rnd[i]),
                  mapId, list, i + 1, rnd)

(* rnd: one record of draws per spawn *)
initializeMapMonsters(S, mapId, mapData, rnd) ==
    IF Has(S.mapMonsters, mapId) THEN S
    ELSE LET S1 == [S EXCEPT !.mapMonsters = Put(@, mapId, EmptyObj),
                             !.mapSpawnData = Put(@, mapId, mapData)]
         IN IF ~mapData.hasMonsters THEN S1
            ELSE [SpawnAll(S1, mapId, SpawnList(mapData), 1, rnd) EXCEPT
                      !.monsterAIInterval = TRUE, !.eliteCheckInterval = TRUE]

(* The ids of the monsters getMapMonsters returns *)
getMapMonsters(S, mapId) ==
    IF ~Has(S.mapMonsters, mapId) THEN {}
    ELSE {id \in DOMAIN S.mapMonsters[mapId] : ~S.mapMonsters[mapId][id].isDead}

getPartyMembersOnMap(S, mapId, playerOdId) ==
    IF ~Has(S.maps, mapId) \/ playerOdId = "" THEN {}
    ELSE IF ~Has(S.maps[mapId], playerOdId) \/ S.maps[mapId][playerOdId].partyId = "" THEN {}
    ELSE {odId \in DOMAIN S.maps[mapId] :
            /\ S.maps[mapId][odId].odId # playerOdId
            /\ S.maps[mapId][odId].partyId = S.maps[mapId][playerOdId].partyId}

-----------------------------------------------------------------------------
(* Loot *)

(* floor(lo + Math.random() * span) for the draw u / RandomGrain *)
RandomInt(lo, span, u) == lo + ((u * span) \div RandomGrain)

(* The elite drops, in the order they are pushed: <<[name, amount], ...>> *)
EliteDrops(rnd) ==
    <<[name |-> "Gold", amount |-> RandomInt(ELITE_GOLD_MIN, ELITE_GOLD_SPAN, rnd.gold)]>>
    \o Repeat([name |-> "Gachapon Ticket", amount |-> 0], RandomInt(2, 4, rnd.tickets))
    \o Repeat([name |-> "Enhancement Scroll", amount |-> 0], RandomInt(4, 5, rnd.scrolls))

(* The drops of the loot table: entry i drops when its roll is below rate * multiplier;
   rnd.lootHit holds the entries whose roll came out low enough. *)
RECURSIVE LootDrops(_, _, _, _)
LootDrops(loot, i, isElite, rnd) ==
    IF i > Len(loot) THEN <<>>
    ELSE LET mult == IF isElite THEN 3 ELSE 1
             rate == Or(loot[i].ratePct, 10) * mult
             lo == Or(loot[i].min, 1)
             hi == Or(loot[i].max, 10)
             base == RandomInt(lo, hi - lo + 1, rnd.gold)
             hit == rate >= 100 \/ (rate > 0 /\ i \in rnd.lootHit)
             drop == IF loot[i].name = "Gold"
                     THEN [name |-> "Gold", amount |-> IF isElite THEN base * 20 ELSE base]
                     ELSE [name |-> loot[i].name, amount |-> 0]
         IN (IF hit THEN <<drop>> ELSE <<>>) \o LootDrops(loot, i + 1, isElite, rnd)

(* The drops generateMonsterDrops returns, each with its minted id *)
generateMonsterDrops(S, mapId, monster, rnd) ==
    IF ~HasTypeData(S, mapId, monster.type) \/ ~TypeDataOf(S, mapId, monster.type).hasLoot
    THEN <<>>
    ELSE LET list == (IF monster.isEliteMonster THEN EliteDrops(rnd) ELSE <<>>)
                     \o LootDrops(TypeDataOf(S, mapId, monster.type).loot, 1,
                                  monster.isEliteMonster, rnd)
                     \o (IF rnd.salami THEN <<[name |-> "Salami Stick", amount |-> 0]>>
                         ELSE <<>>)
         IN [i \in 1..Len(list) |->
                [id |-> S.nextDropId + i - 1, name |-> list[i].name,
                 amount |-> list[i].amount]]

-----------------------------------------------------------------------------
(* Combat *)

(* monsterDamage[monsterId][odId] || 0 *)
RECURSIVE LedgerGet(_, _)
LedgerGet(ledger, odId) ==
    IF ledger = <<>> THEN 0
    ELSE IF Head(ledger).odId = odId THEN Head(ledger).damage
    ELSE LedgerGet(Tail(ledger), odId)

(* A ledger whose written key always moves to the end *)
LedgerSetLast(ledger, odId, v) ==
    SelectSeq(ledger, LAMBDA e : e.odId # odId) \o <<[odId |-> odId, damage |-> v]>>

(* monsterDamage[monsterId][odId] = v: a new key goes last, an old key keeps its place *)
LedgerSet(ledger, odId, v) ==
    IF \E i \in 1..Len(ledger) : ledger[i].odId = odId
    THEN [i \in 1..Len(ledger) |->
            IF ledger[i].odId = odId THEN [odId |-> odId, damage |-> v] ELSE ledger[i]]
    ELSE Append(ledger, [odId |-> odId, damage |-> v])

(* The loop of killMonster over Object.entries(damageMap) *)
RECURSIVE TopDamagerFrom(_, _, _)
TopDamagerFrom(ledger, topDamager, topDamage) ==
    IF ledger = <<>> THEN topDamager
    ELSE IF Head(ledger).damage > topDamage
    THEN TopDamagerFrom(Tail(ledger), Head(ledger).odId, Head(ledger).damage)
    ELSE TopDamagerFrom(Tail(ledger), topDamager, topDamage)

(* The first attacker of the ledger, whatever the damage *)
FirstDamager(ledger) == IF ledger = <<>> THEN "" ELSE Head(ledger).odId

TopDamager(ledger) == TopDamagerFrom(ledger, "", 0)

RECURSIVE RegisterDrops(_, _, _)
RegisterDrops(items, drops, i) ==
    IF i > Len(drops) THEN items
    ELSE RegisterDrops(Put(items, drops[i].id,
                           [name |-> drops[i].name, droppedBy |-> "__monster__"]),
                       drops, i + 1)

(* What killMonster remembers for the respawn *)
RespawnData(monster) ==
    [x |-> <<>>,
     surface |-> IF IsDef(monster.patrolSurface) THEN monster.patrolSurface
                 ELSE <<monster.patrolMinX - 20,
                        (monster.patrolMaxX + 20) - (monster.patrolMinX - 20)>>,
     mapWidth |-> monster.mapWidth, maxHp |-> monster.maxHp]

killMonster(S, mapId, monsterId, rnd) ==
    IF ~Has(S.mapMonsters, mapId) \/ ~Has(S.mapMonsters[mapId], monsterId) THEN S
    ELSE
    LET monster == [S.mapMonsters[mapId][monsterId] EXCEPT !.isDead = TRUE, !.hp = 0]
        elite == IF /\ monster.isEliteMonster
                    /\ Has(S.currentEliteMonsters, mapId)
                    /\ S.currentEliteMonsters[mapId] = monsterId
                 THEN Del(S.currentEliteMonsters, mapId)
                 ELSE S.currentEliteMonsters
        damageMap == IF Has(S.monsterDamage, monsterId) THEN S.monsterDamage[monsterId]
                     ELSE <<>>
        topDamager == TopDamager(damageMap)
        drops == generateMonsterDrops(S, mapId, monster, rnd)
        items == RegisterDrops(IF Has(S.mapGroundItems, mapId) THEN S.mapGroundItems[mapId]
                               ELSE EmptyObj, drops, 1)
        partyMembers == getPartyMembersOnMap(S, mapId, topDamager)
        timer == IF StartsWith(mapId, PqPrefix)
                 THEN [kind |-> "corpse", mapId |-> mapId, monsterId |-> monsterId,
                       fireAt |-> S.now + PQ_CORPSE_DELAY, type |-> monster.type,
                       data |-> RespawnData(monster)]
                 ELSE [kind |-> "respawn", mapId |-> mapId, monsterId |-> monsterId,
                       fireAt |-> S.now + (IF monster.isMiniBoss THEN BOSS_RESPAWN_TIME
                                           ELSE RESPAWN_TIME),
                       type |-> monster.type, data |-> RespawnData(monster)]
        S1 == [S EXCEPT !.mapMonsters[mapId][monsterId] = monster,
                        !.currentEliteMonsters = elite,
                        !.mapGroundItems = Put(@, mapId, items),
                        !.nextDropId = @ + Len(drops),
                        !.monsterDamage = Del(@, monsterId),
                        !.timers = @ \cup {timer}]
    IN Emit(S1, [Event("monsterKilled", IoTo(S1, mapId)) EXCEPT
                    !.id = monsterId, !.map = mapId, !.odId = topDamager,
                    !.name = monster.type,
                    !.ids = {drops[i].id : i \in 1..Len(drops)},
                    !.members = partyMembers, !.flag = monster.isEliteMonster])

(* The monster after the damage, the aggro and the knockback of damageMonster *)
Damaged(monster, validatedDamage, attackerId, attackDirection, t) ==
    LET hit == [monster EXCEPT !.hp = @ - validatedDamage, !.lastUpdate = t]
        aggro == IF monster.aiType # "static"
                 THEN [hit EXCEPT !.aiState = "chasing", !.targetPlayer = attackerId,
                                  !.lastInteractionTime = t]
                 ELSE hit
        newX == monster.x + (attackDirection[1] * (KNOCKBACK_FORCE * KNOCKBACK_TICKS))
    IN IF monster.aiType # "static" /\ IsDef(attackDirection)
       THEN [aggro EXCEPT !.x = Max(monster.patrolMinX, Min(monster.patrolMaxX, newX)),
                          !.knockbackEndTime = t + KNOCKBACK_DURATION]
       ELSE aggro

(* What damageMonster returns: "null", "rateLimited", "killed", "correction" or "hit" *)
DamageResult(S, mapId, monsterId, damage, attackerId, seq, predictedHp) ==
    IF ~Has(S.mapMonsters, mapId) \/ ~Has(S.mapMonsters[mapId], monsterId) THEN "null"
    ELSE IF S.mapMonsters[mapId][monsterId].isDead THEN "null"
    ELSE IF ~RateAllowed(S, attackerId, "attacks", MAX_ATTACKS_PER_SECOND) THEN "rateLimited"
    ELSE IF validateDamage(damage) = 0 THEN "null"
    ELSE LET hp == S.mapMonsters[mapId][monsterId].hp - validateDamage(damage)
         IN IF hp <= 0 THEN "killed"
            ELSE IF IsDef(predictedHp) /\ Truthy(seq)
                    /\ Abs(hp - predictedHp[1]) > HP_CORRECTION_THRESHOLD
            THEN "correction"
            ELSE "hit"

(* The asserted damage rounded up *)
CeilDamage(damage) == (damage.half + 1) \div 2

(* The amount damageMonster adds to the ledger entry of the attacker *)
LedgerAmount(damage) == validateDamage(damage)

(* The state damageMonster leaves *)
damageMonster(S, mapId, monsterId, damage, attackerId, attackDirection, seq, rnd) ==
    IF ~Has(S.mapMonsters, mapId) \/ ~Has(S.mapMonsters[mapId], monsterId) THEN S
    ELSE IF S.mapMonsters[mapId][monsterId].isDead THEN S
    ELSE IF ~RateAllowed(S, attackerId, "attacks", MAX_ATTACKS_PER_SECOND)
    THEN checkRateLimit(S, attackerId, "attacks", MAX_ATTACKS_PER_SECOND)
    ELSE IF validateDamage(damage) = 0
    THEN checkRateLimit(S, attackerId, "attacks", MAX_ATTACKS_PER_SECOND)
    ELSE
    LET S1 == checkRateLimit(S, attackerId, "attacks", MAX_ATTACKS_PER_SECOND)
        validatedDamage == validateDamage(damage)
        ledger == IF Has(S1.monsterDamage, monsterId) THEN S1.monsterDamage[monsterId]
                  ELSE <<>>
        monster == Damaged(S1.mapMonsters[mapId][monsterId], validatedDamage, attackerId,
                           attackDirection, S1.now)
        S2 == [S1 EXCEPT
                 !.monsterDamage =
                     Put(@, monsterId,
                         LedgerSet(ledger, attackerId,
                                   LedgerGet(ledger, attackerId) + LedgerAmount(damage))),
                 !.mapMonsters[mapId][monsterId] = monster]
        S3 == Emit(S2, [Event("monsterDamaged", IoTo(S2, mapId)) EXCEPT
                          !.id = monsterId, !.map = mapId, !.n = validatedDamage,
                          !.hp = monster.hp, !.odId = attackerId,
                          !.flag = DamageGreater(damage, validatedDamage)])
    IN IF monster.hp <= 0 THEN killMonster(S3, mapId, monsterId, rnd) ELSE S3

-----------------------------------------------------------------------------
(* The monster AI loop.  Positions are whole numbers: the quotients below are exact for
   the speeds (multiples of 10) and the patrol widths (even) of the catalogs that the
   specifications with ticks use. *)

(* (monster.speed || CONFIG.MONSTER_SPEED) * speedMultiplier *)
PatrolSpeed(monster) ==
    (Or(monster.speed, DEFAULT_SPEED_TENTHS) * SPEED_MULTIPLIER_TENTHS) \div 100

(* ... * speedMultiplier * 1.5 *)
ChaseSpeed(monster) ==
    (Or(monster.speed, DEFAULT_SPEED_TENTHS) * SPEED_MULTIPLIER_TENTHS * CHASE_FACTOR_TENTHS)
    \div 1000

(* The demotion from chasing: the patrol bounds are centred on where the monster is *)
Recentre(monster, patrolRadius) ==
    [monster EXCEPT
        !.aiState = "patrolling", !.targetPlayer = "",
        !.patrolMinX = Max(0, monster.x - patrolRadius),
        !.patrolMaxX = Min(monster.mapWidth - monster.width, monster.x + patrolRadius),
        !.spawnX = monster.x]

(* A chase that no timeout ends *)
ChaseOn(S, monster, mapId) ==
    IF monster.targetPlayer # "" /\ Has(S.maps, mapId) /\ ~Has(S.maps[mapId], monster.targetPlayer)
    THEN [monster EXCEPT !.targetPlayer = ""]
    ELSE monster

(* The branch of updateMonsterAI for a chasing monster *)
Chase(S, monster, mapId) ==
    IF S.now - monster.lastInteractionTime > CHASE_TIMEOUT
    THEN Recentre(monster, (monster.patrolMaxX - monster.patrolMinX) \div 2)
    ELSE IF monster.targetPlayer # "" /\ Has(S.maps, mapId)
    THEN IF Has(S.maps[mapId], monster.targetPlayer)
         THEN LET targetX == S.maps[mapId][monster.targetPlayer].x + TARGET_OFFSET
                  dx == targetX - monster.x
                  direction == IF dx > 0 THEN 1 ELSE -1
                  moveAmount == direction * ChaseSpeed(monster)
                  newX == monster.x + moveAmount
              IN IF Abs(monster.x - monster.spawnX) < CHASE_RANGE
                 THEN IF newX >= 0 /\ newX <= monster.mapWidth - monster.width
                      THEN [monster EXCEPT !.direction = direction,
                                           !.velocityX = moveAmount, !.x = newX]
                      ELSE [monster EXCEPT !.direction = direction, !.velocityX = 0]
                 ELSE Recentre(monster, CHASE_PATROL_RADIUS)
         ELSE [monster EXCEPT !.targetPlayer = ""]
    ELSE monster

(* The patrol branch: turn, move within the patrol bounds, clamp to the map.
   turn: the draw of Math.random() fell below PATROL_CHANGE_CHANCE *)
Patrol(monster, turn) ==
    LET direction == IF monster.x <= monster.patrolMinX + TURN_MARGIN THEN 1
                     ELSE IF monster.x >= monster.patrolMaxX - TURN_MARGIN THEN -1
                     ELSE IF turn THEN 0 - monster.direction ELSE monster.direction
        moveAmount == direction * PatrolSpeed(monster)
        newX == monster.x + moveAmount
        moved == IF newX >= monster.patrolMinX /\ newX <= monster.patrolMaxX
                 THEN [monster EXCEPT !.direction = direction, !.velocityX = moveAmount,
                                      !.x = newX]
                 ELSE IF newX < monster.patrolMinX
                 THEN [monster EXCEPT !.velocityX = 0, !.x = monster.patrolMinX,
                                      !.direction = 1]
                 ELSE [monster EXCEPT !.velocityX = 0, !.x = monster.patrolMaxX,
                                      !.direction = -1]
        left == IF moved.x < 0 THEN [moved EXCEPT !.x = 0, !.direction = 1] ELSE moved
        right == IF left.x > left.mapWidth - left.width
                 THEN [left EXCEPT !.x = left.mapWidth - left.width, !.direction = -1]
                 ELSE left
    IN [right EXCEPT !.aiState = "patrolling"]

(* updateMonsterAI, which returns the monster it mutates *)
updateMonsterAI(S, monster, mapId, turn) ==
    IF monster.aiType = "static" THEN [monster EXCEPT !.velocityX = 0]
    ELSE IF monster.knockbackEndTime # 0 /\ S.now < monster.knockbackEndTime
    THEN [monster EXCEPT !.velocityX = 0]
    ELSE IF monster.aiState = "chasing"
    THEN [Chase(S, monster, mapId) EXCEPT !.lastUpdate = S.now]
    ELSE IF monster.aiState \in {"patrolling", "idle"}
    THEN [Patrol(monster, turn) EXCEPT !.lastUpdate = S.now]
    ELSE [monster EXCEPT !.lastUpdate = S.now]

(* A loop that also moves the dead *)
updateEveryMonster(S, turns) ==
    [S EXCEPT !.mapMonsters =
        [mapId \in DOMAIN S.mapMonsters |->
            [id \in DOMAIN S.mapMonsters[mapId] |->
                updateMonsterAI(S, S.mapMonsters[mapId][id], mapId, id \in turns)]]]

(* turns: the monsters whose draw of Math.random() turns them *)
updateAllMonsters(S, turns) ==
    [S EXCEPT !.mapMonsters =
        [mapId \in DOMAIN S.mapMonsters |->
            [id \in DOMAIN S.mapMonsters[mapId] |->
                IF S.mapMonsters[mapId][id].isDead THEN S.mapMonsters[mapId][id]
                ELSE updateMonsterAI(S, S.mapMonsters[mapId][id], mapId, id \in turns)]]]

(* One monsterPositions per map with players and live monsters (the maps in an order
   that stands for the key order of mapMonsters) *)
RECURSIVE broadcastFrom(_, _)
broadcastFrom(S, mapIds) ==
    IF mapIds = {} THEN S
    ELSE LET mapId == CHOOSE m \in mapIds : TRUE
             S1 == IF /\ Has(S.maps, mapId) /\ DOMAIN S.maps[mapId] # {}
                      /\ getMapMonsters(S, mapId) # {}
                   THEN Emit(S, [Event("monsterPositions", IoTo(S, mapId)) EXCEPT
                                   !.map = mapId, !.ids = getMapMonsters(S, mapId)])
                   ELSE S
         IN broadcastFrom(S1, mapIds \ {mapId})

broadcastMonsterPositions(S) == broadcastFrom(S, DOMAIN S.mapMonsters)

-----------------------------------------------------------------------------
(* Presence: the handlers of one socket c *)

HasPlayer(S, c) == S.currentPlayer[c].odId # "" /\ S.currentMapId[c] # <<>>

(* maps[currentMapId][currentPlayer.odId] is the very object currentPlayer of c *)
Aliased(S, c) ==
    /\ Has(S.maps, S.currentMapId[c])
    /\ Has(S.maps[S.currentMapId[c]], S.currentPlayer[c].odId)
    /\ S.maps[S.currentMapId[c]][S.currentPlayer[c].odId].socketId = c

(* A write to a field of currentPlayer, seen through maps when the object is there *)
SetPlayer(S, c, player) ==
    IF Aliased(S, c)
    THEN [S EXCEPT !.currentPlayer[c] = player,
                   !.maps[S.currentMapId[c]][S.currentPlayer[c].odId] = player]
    ELSE [S EXCEPT !.currentPlayer[c] = player]

RoomOf(S, mapId) == IF Has(S.maps, mapId) THEN S.maps[mapId] ELSE EmptyObj

(* A cleanup that drops the ground items only when there were no monsters to drop *)
cleanupMonstersOrItems(S, mapId) ==
    LET S1 == [S EXCEPT !.maps = Del(@, mapId)]
    IN IF Has(S1.mapMonsters, mapId)
       THEN [S1 EXCEPT !.mapMonsters = Del(@, mapId), !.mapSpawnData = Del(@, mapId)]
       ELSE IF Has(S1.mapGroundItems, mapId)
       THEN [S1 EXCEPT !.mapGroundItems = Del(@, mapId)]
       ELSE S1

(* The cleanup of an empty map *)
cleanupEmptyMap(S, mapId) ==
    LET S1 == [S EXCEPT !.maps = Del(@, mapId)]
        S2 == IF Has(S1.mapMonsters, mapId)
              THEN [S1 EXCEPT !.mapMonsters = Del(@, mapId), !.mapSpawnData = Del(@, mapId)]
              ELSE S1
    IN IF Has(S2.mapGroundItems, mapId)
       THEN [S2 EXCEPT !.mapGroundItems = Del(@, mapId)]
       ELSE S2

(* The part join, rejoin and changeMap share: install the player, subscribe, greet *)
Install(S, c, player, mapId, monstersIfEmpty) ==
    LET S1 == [S EXCEPT !.maps = Put(@, mapId, Put(RoomOf(S, mapId), player.odId, player)),
                        !.rooms[mapId] = @ \cup {c}]
        S2 == Emit(S1, [Event("currentPlayers", {c}) EXCEPT
                          !.map = mapId, !.ids = DOMAIN S1.maps[mapId] \ {player.odId}])
        S3 == IF Has(S2.mapMonsters, mapId)
                 /\ (monstersIfEmpty \/ DOMAIN S2.mapMonsters[mapId] # {})
              THEN Emit(S2, [Event("currentMonsters", {c}) EXCEPT
                               !.map = mapId, !.ids = getMapMonsters(S2, mapId)])
              ELSE S2
    IN Emit(S3, [Event("playerJoined", SocketTo(S3, c, mapId)) EXCEPT
                   !.map = mapId, !.odId = player.odId])

NewPlayer(S, c, data) ==
    [odId |-> data.odId, name |-> data.name, mapId |-> data.mapId,
     x |-> Or(data.x, DEFAULT_X), partyId |-> data.partyId, lastUpdate |-> S.now,
     socketId |-> c]

(* data.isObject is FALSE when the event came with no payload or with null: the
   destructuring of the first line of join and rejoin then throws a TypeError, which no
   code of the server catches; the handler has emitted and written nothing by then *)
join(S, c, data) ==
    IF ~data.isObject THEN S
    ELSE IF data.odId = "" \/ data.name = "" \/ data.mapId = <<>>
    THEN Emit(S, Event("error", {c}))
    ELSE LET S1 == [S EXCEPT !.currentPlayer[c] = NewPlayer(S, c, data),
                             !.currentMapId[c] = data.mapId,
                             !.playerSockets = Put(@, data.odId, c)]
         IN Install(S1, c, NewPlayer(S, c, data), data.mapId, FALSE)

(* The cleanup of the old character in rejoin *)
rejoinCleanup(S, c, oldOdId) ==
    IF ~HasPlayer(S, c) THEN S
    ELSE
    LET mapId == S.currentMapId[c]
        odId == S.currentPlayer[c].odId
        S1 == IF Has(S.maps, mapId) /\ Has(S.maps[mapId], odId)
              THEN [S EXCEPT !.maps[mapId] = Del(@, odId)] ELSE S
        S2 == IF oldOdId # "" /\ Has(S1.maps, mapId) /\ Has(S1.maps[mapId], oldOdId)
              THEN [S1 EXCEPT !.maps[mapId] = Del(@, oldOdId)] ELSE S1
        S3 == Emit(S2, [Event("playerLeft", SocketTo(S2, c, mapId)) EXCEPT
                          !.map = mapId, !.odId = odId])
        S4 == IF oldOdId # "" /\ oldOdId # odId
              THEN Emit(S3, [Event("playerLeft", SocketTo(S3, c, mapId)) EXCEPT
                               !.map = mapId, !.odId = oldOdId])
              ELSE S3
        S5 == [S4 EXCEPT !.playerSockets = Del(@, odId)]
        S6 == IF oldOdId # "" THEN [S5 EXCEPT !.playerSockets = Del(@, oldOdId)] ELSE S5
    IN [S6 EXCEPT !.rooms[mapId] = @ \ {c}]

rejoin(S, c, data) ==
    IF ~data.isObject THEN S
    ELSE IF data.odId = "" \/ data.name = "" \/ data.mapId = <<>>
    THEN Emit(S, Event("error", {c}))
    ELSE LET S0 == rejoinCleanup(S, c, data.oldOdId)
             S1 == [S0 EXCEPT !.currentPlayer[c] = NewPlayer(S, c, data),
                              !.currentMapId[c] = data.mapId,
                              !.playerSockets = Put(@, data.odId, c)]
         IN Install(S1, c, NewPlayer(S, c, data), data.mapId, FALSE)

updatePosition(S, c, x) ==
    IF ~HasPlayer(S, c) THEN S
    ELSE LET S1 == SetPlayer(S, c, [S.currentPlayer[c] EXCEPT !.x = x, !.lastUpdate = S.now])
         IN Emit(S1, [Event("playerMoved", SocketTo(S1, c, S1.currentMapId[c])) EXCEPT
                        !.map = S1.currentMapId[c], !.odId = S1.currentPlayer[c].odId,
                        !.n = x])

changeMap(S, c, newMapId, x) ==
    IF S.currentPlayer[c].odId = "" THEN S
    ELSE
    LET oldMapId == S.currentMapId[c]
        odId == S.currentPlayer[c].odId
        S1 == IF Has(S.maps, oldMapId) /\ Has(S.maps[oldMapId], odId)
              THEN LET T1 == [S EXCEPT !.maps[oldMapId] = Del(@, odId),
                                       !.rooms[oldMapId] = @ \ {c}]
                       T2 == Emit(T1, [Event("playerLeft", SocketTo(T1, c, oldMapId)) EXCEPT
                                         !.map = oldMapId, !.odId = odId])
                   IN IF DOMAIN T2.maps[oldMapId] = {} THEN cleanupEmptyMap(T2, oldMapId)
                      ELSE T2
              ELSE S
        player == [S.currentPlayer[c] EXCEPT !.mapId = newMapId, !.x = Or(x, DEFAULT_X)]
        S2 == [S1 EXCEPT !.currentMapId[c] = newMapId, !.currentPlayer[c] = player]
    IN Install(S2, c, player, newMapId, TRUE)

(* The relays that only forward: chatMessage -> playerChat, playerVFX -> remotePlayerVFX,
   playerProjectile -> remoteProjectile, playerProjectileHit -> remoteProjectileHit,
   playerSkillVFX -> remoteSkillVFX, updateAppearance -> playerAppearanceUpdated,
   playerDeath -> playerDied, playerRespawn -> playerRespawned *)
Relays ==
    {"playerChat", "remotePlayerVFX", "remoteProjectile", "remoteProjectileHit",
     "remoteSkillVFX", "playerAppearanceUpdated", "playerDied", "playerRespawned"}

relay(S, c, ev) ==
    IF ~HasPlayer(S, c) THEN S
    ELSE Emit(S, [Event(ev, SocketTo(S, c, S.currentMapId[c])) EXCEPT
                    !.map = S.currentMapId[c], !.odId = S.currentPlayer[c].odId])

updateParty(S, c, partyId) ==
    IF S.currentPlayer[c].odId = "" THEN S
    ELSE LET S1 == SetPlayer(S, c, [S.currentPlayer[c] EXCEPT !.partyId = partyId])
         IN IF S1.currentMapId[c] # <<>>
            THEN Emit(S1, [Event("playerPartyUpdated", SocketTo(S1, c, S1.currentMapId[c]))
                             EXCEPT !.map = S1.currentMapId[c],
                                    !.odId = S1.currentPlayer[c].odId, !.name = partyId])
            ELSE S1

updatePartyStats(S, c) ==
    IF ~HasPlayer(S, c) THEN S
    ELSE IF S.currentPlayer[c].partyId # ""
    THEN Emit(S, [Event("partyMemberStats", SocketTo(S, c, S.currentMapId[c])) EXCEPT
                    !.map = S.currentMapId[c], !.odId = S.currentPlayer[c].odId])
    ELSE S

(* Math.ceil(a / b) for a >= 0 and b > 0 *)
Ceil(a, b) == (a + b - 1) \div b

(* A split whose looter keeps the remainder, whatever it is *)
SharesRemainder(totalAmount, totalMembers) ==
    [sharePerMember |-> Max(1, Ceil(totalAmount, totalMembers)),
     looterShare |->
         totalAmount - (Max(1, Ceil(totalAmount, totalMembers)) * (totalMembers - 1))]

(* sharePerMember and looterShare of sharePartyGold *)
Shares(totalAmount, totalMembers) ==
    LET sharePerMember == Max(1, Ceil(totalAmount, totalMembers))
        totalDistributed == sharePerMember * (totalMembers - 1)
    IN [sharePerMember |-> sharePerMember,
        looterShare |-> Max(1, totalAmount - totalDistributed)]

(* The socket.io room whose name is the string odId.  Map ids are sequences of
   characters and the odIds of the model are one character long.  (Every socket is also
   in the room of its own socket.id, a random string no odId is taken to equal.) *)
RoomName(odId) == <<odId>>

(* The delivery loop of sharePartyGold: for each member, the first entry of
   maps[mapId] whose player has the odId of the member, and an emit to io.to(its key) *)
RECURSIVE DeliverShares(_, _, _, _)
DeliverShares(S, mapId, partyMembers, amount) ==
    IF partyMembers = {} THEN S
    ELSE LET memberOdId == CHOOSE o \in partyMembers : TRUE
             keys == {k \in DOMAIN RoomOf(S, mapId) : S.maps[mapId][k].odId = memberOdId}
             S1 == IF keys = {} THEN S
                   ELSE Emit(S, [Event("partyGoldShare",
                                       IoTo(S, RoomName(CHOOSE k \in keys : TRUE))) EXCEPT
                                    !.n = amount, !.odId = memberOdId])
         IN DeliverShares(S1, mapId, partyMembers \ {memberOdId}, amount)

sharePartyGold(S, c, totalAmount) ==
    IF ~HasPlayer(S, c) \/ S.currentPlayer[c].partyId = "" THEN S
    ELSE IF totalAmount <= 0 THEN S
    ELSE
    LET mapId == S.currentMapId[c]
        partyMembers == getPartyMembersOnMap(S, mapId, S.currentPlayer[c].odId)
        totalMembers == Cardinality(partyMembers) + 1
        shares == Shares(totalAmount, totalMembers)
    IN IF totalMembers <= 1 THEN S
       ELSE Emit(DeliverShares(S, mapId, partyMembers, shares.sharePerMember),
                 [Event("partyGoldShareResult", {c}) EXCEPT
                    !.id = totalAmount, !.n = shares.looterShare, !.count = totalMembers])

(* socket.io has taken the socket out of every room before 'disconnect' is emitted.
   No handler of the socket runs afterwards, so its closure (currentPlayer,
   currentMapId) is dropped at the end. *)
Closed(S, c) == [S EXCEPT !.currentPlayer[c] = NoPlayer, !.currentMapId[c] = <<>>]

disconnect(S, c) ==
    LET S0 == [S EXCEPT !.rooms = [m \in DOMAIN S.rooms |-> S.rooms[m] \ {c}],
                        !.connected[c] = "closed"]
    IN IF ~HasPlayer(S0, c) THEN Closed(S0, c)
       ELSE
       LET mapId == S0.currentMapId[c]
           odId == S0.currentPlayer[c].odId
           S1 == IF Has(S0.maps, mapId) /\ Has(S0.maps[mapId], odId)
                 THEN [S0 EXCEPT !.maps[mapId] = Del(@, odId)] ELSE S0
           S2 == cleanupRateLimiter([S1 EXCEPT !.playerSockets = Del(@, odId)], odId)
           S3 == [S2 EXCEPT !.authorizedGMs = @ \ {c}]
           S4 == Emit(S3, [Event("playerLeft", SocketTo(S3, c, mapId)) EXCEPT
                             !.map = mapId, !.odId = odId])
       IN IF Has(S4.maps, mapId) /\ DOMAIN S4.maps[mapId] = {}
          THEN Closed(cleanupEmptyMap(S4, mapId), c)
          ELSE Closed(S4, c)

(* The inactivity sweep of one map, then of all maps (in an order that stands for the
   key order of maps, which decides only the order of the emitted events) *)
RECURSIVE EmitLeft(_, _, _)
EmitLeft(S, mapId, odIds) ==
    IF odIds = {} THEN S
    ELSE LET odId == CHOOSE o \in odIds : TRUE
         IN EmitLeft(Emit(S, [Event("playerLeft", IoTo(S, mapId)) EXCEPT
                                !.map = mapId, !.odId = odId]),
                     mapId, odIds \ {odId})

(* A staleness test that allows twice the timeout *)
IsStaleTwice(S, player) == S.now - player.lastUpdate > 2 * PLAYER_TIMEOUT

IsStale(S, player) == S.now - player.lastUpdate > PLAYER_TIMEOUT

sweepMap(S, mapId) ==
    LET stale == {odId \in DOMAIN S.maps[mapId] : IsStale(S, S.maps[mapId][odId])}
        S1 == [S EXCEPT !.maps[mapId] = [o \in DOMAIN @ \ stale |-> @[o]]]
        S2 == EmitLeft(S1, mapId, stale)
    IN IF DOMAIN S2.maps[mapId] = {} THEN cleanupEmptyMap(S2, mapId) ELSE S2

RECURSIVE sweepFrom(_, _)
sweepFrom(S, mapIds) ==
    IF mapIds = {} THEN S
    ELSE LET mapId == CHOOSE m \in mapIds : TRUE
         IN sweepFrom(sweepMap(S, mapId), mapIds \ {mapId})

sweep(S) == sweepFrom(S, DOMAIN S.maps)

-----------------------------------------------------------------------------
(* Monsters, combat and items: the handlers of one socket c *)

(* data: [mapId, mapData]; mapData.hasTypes says whether monsterTypes was sent *)
initMapMonsters(S, c, data, rnd) ==
    IF ~HasPlayer(S, c) THEN S
    ELSE
    LET mapId == data.mapId
        S1 == IF data.mapData.hasTypes /\ ~SpawnDataOf(S, mapId).hasTypes
              THEN [S EXCEPT !.mapSpawnData =
                        Put(@, mapId, [SpawnDataOf(S, mapId) EXCEPT
                                          !.hasTypes = TRUE,
                                          !.monsterTypes = data.mapData.monsterTypes])]
              ELSE S
    IN IF Has(S1.mapMonsters, mapId) /\ DOMAIN S1.mapMonsters[mapId] # {}
       THEN Emit(S1, [Event("currentMonsters", {c}) EXCEPT
                        !.map = mapId, !.ids = getMapMonsters(S1, mapId)])
       ELSE LET S2 == initializeMapMonsters(S1, mapId, data.mapData, rnd)
            IN Emit(S2, [Event("currentMonsters", IoTo(S2, mapId)) EXCEPT
                           !.map = mapId, !.ids = getMapMonsters(S2, mapId)])

(* A handler that sends the correction for every attack that did not kill and was not a
   plain hit *)
attackMonsterCorrecting(S, c, data, rnd) ==
    IF ~HasPlayer(S, c) THEN S
    ELSE
    LET mapId == S.currentMapId[c]
        odId == S.currentPlayer[c].odId
    IN IF ~Has(S.mapMonsters, mapId) \/ ~Has(S.mapMonsters[mapId], data.monsterId)
       THEN S
       ELSE LET S1 == damageMonster(S, mapId, data.monsterId, data.damage, odId,
                                    data.playerDirection, data.seq, rnd)
            IN IF DamageResult(S, mapId, data.monsterId, data.damage, odId, data.seq,
                               data.predictedHp) \in {"correction", "rateLimited"}
               THEN Emit(S1, [Event("attackCorrection", {c}) EXCEPT
                                !.id = data.monsterId,
                                !.n = IF Truthy(data.seq) THEN data.seq[1] ELSE 0,
                                !.name = "hp_correction",
                                !.hp = S1.mapMonsters[mapId][data.monsterId].hp])
               ELSE S1

(* data: [seq, monsterId, damage, playerDirection, predictedHp] *)
attackMonster(S, c, data, rnd) ==
    IF ~HasPlayer(S, c) THEN S
    ELSE
    LET mapId == S.currentMapId[c]
        odId == S.currentPlayer[c].odId
    IN IF ~Has(S.mapMonsters, mapId) \/ ~Has(S.mapMonsters[mapId], data.monsterId)
       THEN IF Truthy(data.seq)
            THEN Emit(S, [Event("attackCorrection", {c}) EXCEPT
                            !.id = data.monsterId, !.n = data.seq[1],
                            !.name = "attack_invalid"])
            ELSE S
       ELSE LET S1 == damageMonster(S, mapId, data.monsterId, data.damage, odId,
                                    data.playerDirection, data.seq, rnd)
            IN IF DamageResult(S, mapId, data.monsterId, data.damage, odId, data.seq,
                               data.predictedHp) = "correction"
               THEN Emit(S1, [Event("attackCorrection", {c}) EXCEPT
                                !.id = data.monsterId, !.n = data.seq[1],
                                !.name = "hp_correction",
                                !.hp = S1.mapMonsters[mapId][data.monsterId].hp])
               ELSE S1

(* A pickup handler that tells the whole room of a rejection *)
itemPickupAnnounced(S, c, itemId) ==
    IF ~HasPlayer(S, c) THEN S
    ELSE
    LET mapId == S.currentMapId[c]
        odId == S.currentPlayer[c].odId
        S1 == checkRateLimit(S, odId, "pickups", MAX_PICKUPS_PER_SECOND)
    IN IF ~RateAllowed(S, odId, "pickups", MAX_PICKUPS_PER_SECOND) THEN S1
       ELSE IF Has(S1.mapGroundItems, mapId) /\ Has(S1.mapGroundItems[mapId], itemId)
       THEN Emit([S1 EXCEPT !.mapGroundItems[mapId] = Del(@, itemId)],
                 [Event("itemPickedUp", IoTo(S1, mapId)) EXCEPT
                    !.id = itemId, !.map = mapId, !.odId = odId])
       ELSE Emit(S1, [Event("itemPickupRejected", IoTo(S1, mapId)) EXCEPT
                        !.id = itemId, !.name = "already_picked_up"])

(* A pickup that leaves the item on the ground *)
Keep(items, itemId) == items

(* The ground items of the map after a pickup of itemId was granted *)
Consume(items, itemId) == Del(items, itemId)

itemPickup(S, c, itemId) ==
    IF ~HasPlayer(S, c) THEN S
    ELSE
    LET mapId == S.currentMapId[c]
        odId == S.currentPlayer[c].odId
        S1 == checkRateLimit(S, odId, "pickups", MAX_PICKUPS_PER_SECOND)
    IN IF ~RateAllowed(S, odId, "pickups", MAX_PICKUPS_PER_SECOND) THEN S1
       ELSE IF Has(S1.mapGroundItems, mapId) /\ Has(S1.mapGroundItems[mapId], itemId)
       THEN Emit([S1 EXCEPT !.mapGroundItems[mapId] = Consume(@, itemId)],
                 [Event("itemPickedUp", IoTo(S1, mapId)) EXCEPT
                    !.id = itemId, !.map = mapId, !.odId = odId])
       ELSE Emit(S1, [Event("itemPickupRejected", {c}) EXCEPT
                        !.id = itemId, !.name = "already_picked_up"])

playerDropItem(S, c, name) ==
    IF ~HasPlayer(S, c) THEN S
    ELSE
    LET mapId == S.currentMapId[c]
        dropId == S.nextDropId
        items == IF Has(S.mapGroundItems, mapId) THEN S.mapGroundItems[mapId] ELSE EmptyObj
        S1 == [S EXCEPT !.nextDropId = @ + 1,
                        !.mapGroundItems =
                            Put(@, mapId, Put(items, dropId,
                                [name |-> name, droppedBy |-> S.currentPlayer[c].odId]))]
        S2 == Emit(S1, [Event("playerItemDropped", SocketTo(S1, c, mapId)) EXCEPT
                          !.id = dropId, !.map = mapId, !.name = name])
    IN Emit(S2, [Event("playerDropConfirm", {c}) EXCEPT !.id = dropId])

requestMonsters(S, c) ==
    IF S.currentMapId[c] = <<>> THEN S
    ELSE Emit(S, [Event("currentMonsters", {c}) EXCEPT
                    !.map = S.currentMapId[c], !.ids = getMapMonsters(S, S.currentMapId[c])])

(* CONFIG.GM_PASSWORD as the environment sets it, "" when it is not set *)
GM_PASSWORD == "gm"

(* socket.on('gmAuth') *)
gmAuth(S, c, password) ==
    IF GM_PASSWORD = ""
    THEN Emit(S, [Event("gmAuthResult", {c}) EXCEPT !.flag = FALSE, !.name = "not configured"])
    ELSE IF password = GM_PASSWORD
    THEN Emit([S EXCEPT !.authorizedGMs = @ \cup {c}],
              [Event("gmAuthResult", {c}) EXCEPT !.flag = TRUE, !.name = "granted"])
    ELSE Emit(S, [Event("gmAuthResult", {c}) EXCEPT !.flag = FALSE, !.name = "invalid"])

(* A callback that leaves the corpse where it lies *)
timerCallbackOverCorpse(S, t, rnd) ==
    LET S0 == [S EXCEPT !.timers = @ \ {t}]
    IN IF t.kind = "corpse" THEN S0
       ELSE IF ~Has(S0.mapMonsters, t.mapId) THEN S0
       ELSE IF Has(S0.maps, t.mapId) /\ DOMAIN S0.maps[t.mapId] # {}
       THEN spawnMonster(S0, t.mapId, t.type, t.data, rnd)
       ELSE S0

(* The callback killMonster hands to setTimeout, for the pending timer t *)
timerCallback(S, t, rnd) ==
    LET S0 == [S EXCEPT !.timers = @ \ {t}]
        corpse == Has(S0.mapMonsters, t.mapId) /\ Has(S0.mapMonsters[t.mapId], t.monsterId)
        S1 == IF corpse THEN [S0 EXCEPT !.mapMonsters[t.mapId] = Del(@, t.monsterId)]
              ELSE S0
    IN IF t.kind = "corpse" THEN S1
       ELSE IF ~Has(S0.mapMonsters, t.mapId) THEN S0
       ELSE IF Has(S1.maps, t.mapId) /\ DOMAIN S1.maps[t.mapId] # {}
       THEN spawnMonster(S1, t.mapId, t.type, t.data, rnd)
       ELSE S1

(* Whether the callback of t will call spawnMonster *)
WillRespawn(S, t) ==
    /\ t.kind = "respawn"
    /\ Has(S.mapMonsters, t.mapId)
    /\ Has(S.maps, t.mapId) /\ DOMAIN S.maps[t.mapId] # {}

-----------------------------------------------------------------------------
(* Elite monsters *)

(* The keys of an object whose keys are whole numbers, in the order of Object.values *)
RECURSIVE Ascending(_)
Ascending(ids) ==
    IF ids = {} THEN <<>>
    ELSE LET least == CHOOSE i \in ids : \A j \in ids : i <= j
         IN <<least>> \o Ascending(ids \ {least})

(* The monsters attemptServerEliteSpawn may promote (no monster of the server has
   isTrialBoss) *)
Eligible(S, mapId) ==
    Ascending({id \in DOMAIN S.mapMonsters[mapId] :
                 LET m == S.mapMonsters[mapId][id]
                 IN ~m.isDead /\ ~m.isMiniBoss /\ ~m.isEliteMonster /\ m.type # "testDummy"})

(* The promotion of the server *)
Promote(monster) ==
    [monster EXCEPT
        !.isEliteMonster = TRUE,
        !.originalMaxHp = monster.maxHp,
        !.originalDamage = Or(monster.damage, DEFAULT_DAMAGE),
        !.maxHp = monster.maxHp * ELITE_HP_MULTIPLIER,
        !.hp = monster.maxHp * ELITE_HP_MULTIPLIER,
        !.damage = Or(monster.damage, DEFAULT_DAMAGE) * ELITE_DAMAGE_MULTIPLIER]

(* The loop of attemptServerEliteSpawn over the maps that are left (in an order that
   stands for the key order of mapMonsters).  rnd.lucky: the maps whose draw of
   Math.random() did not exceed spawnChance; rnd.u: the draw that picks the monster *)
RECURSIVE eliteSpawnFrom(_, _, _)
eliteSpawnFrom(S, mapIds, rnd) ==
    IF mapIds = {} THEN S
    ELSE
    LET mapId == CHOOSE m \in mapIds : TRUE
        eligible == Eligible(S, mapId)
        S1 == IF ~Has(S.maps, mapId) \/ DOMAIN S.maps[mapId] = {} THEN S
              ELSE IF IsExcludedMap(mapId) THEN S
              ELSE IF Has(S.currentEliteMonsters, mapId) THEN S
              ELSE IF mapId \notin rnd.lucky THEN S
              ELSE IF Len(eligible) = 0 THEN S
              ELSE LET id == eligible[((rnd.u * Len(eligible)) \div RandomGrain) + 1]
                       target == Promote(S.mapMonsters[mapId][id])
                   IN Emit([S EXCEPT !.mapMonsters[mapId][id] = target,
                                     !.currentEliteMonsters = Put(@, mapId, id)],
                           [Event("monsterTransformedElite", IoTo(S, mapId)) EXCEPT
                              !.id = id, !.map = mapId, !.hp = target.hp])
    IN eliteSpawnFrom(S1, mapIds \ {mapId}, rnd)

attemptServerEliteSpawn(S, rnd) == eliteSpawnFrom(S, DOMAIN S.mapMonsters, rnd)

(* data: [monsterId, maxHp, damage, originalMaxHp, originalDamage] *)
transformElite(S, c, data) ==
    IF ~HasPlayer(S, c) THEN S
    ELSE LET mapId == S.currentMapId[c]
         IN IF Has(S.mapMonsters, mapId) /\ Has(S.mapMonsters[mapId], data.monsterId)
            THEN Emit([S EXCEPT !.mapMonsters[mapId][data.monsterId] =
                          [@ EXCEPT !.isEliteMonster = TRUE, !.maxHp = data.maxHp,
                                    !.hp = data.maxHp, !.damage = data.damage,
                                    !.originalMaxHp = data.originalMaxHp,
                                    !.originalDamage = data.originalDamage]],
                      [Event("monsterTransformedElite", IoTo(S, mapId)) EXCEPT
                         !.id = data.monsterId, !.map = mapId, !.hp = data.maxHp])
            ELSE S

-----------------------------------------------------------------------------
(* Observers: what was served last, and what the emitted events add up to.  They
   read the events; no handler reads them. *)

Req(op, c) ==
    [op |-> op, socket |-> c, damage |-> Num(0), id |-> 0, odId |-> "", map |-> <<>>,
     orphaned |-> FALSE, emptied |-> {}, onMap |-> FALSE, again |-> FALSE,
     result |-> "", malformed |-> FALSE, seq |-> <<>>, predictedHp |-> <<>>,
     phase |-> 0, snap |-> <<>>]

(* The room state of mapId in S as the player of connection c finds it, but for
   timestamps and connection ids: the players, the monsters, the topology, the ground
   items and whether c is subscribed *)
RoomSnapshot(S, mapId, c) ==
    [players |-> [o \in DOMAIN RoomOf(S, mapId) |->
                    [S.maps[mapId][o] EXCEPT !.lastUpdate = 0, !.socketId = 0]],
     monsters |-> IF Has(S.mapMonsters, mapId) THEN <<S.mapMonsters[mapId]>> ELSE <<>>,
     topology |-> IF Has(S.mapSpawnData, mapId) THEN <<S.mapSpawnData[mapId]>> ELSE <<>>,
     items |-> IF Has(S.mapGroundItems, mapId) THEN <<S.mapGroundItems[mapId]>> ELSE <<>>,
     subscribed |-> c \in IoTo(S, mapId)]

LastN(q, n) == IF Len(q) > n THEN SubSeq(q, Len(q) - n + 1, Len(q)) ELSE q

(* hist.picked[d]: the itemPickedUp broadcasts for item d
   hist.picker[d]: the pickedUpBy of the first of them
   hist.killed[m]: the monsterKilled broadcasts for monster m
   hist.dealt[<<m, o>>]: the sum of the damage fields of the monsterDamaged broadcasts
       for monster m with attackerId o
   hist.firstHit / lastHit[<<m, o>>]: the rank of the first / latest such broadcast
   hist.hits: the number of monsterDamaged broadcasts
   hist.applied[o]: the times of the latest monsterDamaged broadcasts with attackerId o
   hist.orphaned: the monsters with a pending timer whose room was destroyed
   hist.clock: the number of clock steps
   hist.moves: the number of join, rejoin and changeMap requests
   hist.ticks: the number of ticks of the AI loop
   hist.census[m]: the number of monsters the initialisation of room m spawned, while the
       room has had a player ever since *)
HistInit ==
    [picked |-> [d \in DropIds |-> 0], picker |-> [d \in DropIds |-> ""], killed |-> [m \in MonsterIds |-> 0],
     dealt |-> [k \in MonsterIds \X OdIds |-> 0],
     firstHit |-> [k \in MonsterIds \X OdIds |-> 0],
     lastHit |-> [k \in MonsterIds \X OdIds |-> 0],
     hits |-> 0, applied |-> [o \in OdIds |-> <<>>], orphaned |-> {}, clock |-> 0,
     moves |-> 0, ticks |-> 0, census |-> [m \in MapIds |-> <<>>]]

ObserveEvent(h, e, t) ==
    CASE e.ev = "itemPickedUp" ->
           [h EXCEPT !.picked[e.id] = @ + 1,
                     !.picker[e.id] = IF h.picked[e.id] = 0 THEN e.odId ELSE @]
      [] e.ev = "monsterKilled" -> [h EXCEPT !.killed[e.id] = @ + 1]
      [] e.ev = "monsterDamaged" ->
           [h EXCEPT !.dealt[<<e.id, e.odId>>] = @ + e.n,
                     !.firstHit[<<e.id, e.odId>>] = IF @ = 0 THEN h.hits + 1 ELSE @,
                     !.lastHit[<<e.id, e.odId>>] = h.hits + 1,
                     !.hits = @ + 1,
                     !.applied[e.odId] = LastN(Append(@, t), MAX_ATTACKS_PER_SECOND + 1)]
      [] OTHER -> h

RECURSIVE ObserveEvents(_, _, _)
ObserveEvents(h, events, t) ==
    IF events = <<>> THEN h
    ELSE ObserveEvents(ObserveEvent(h, Head(events), t), Tail(events), t)

Observe(Pre, S) ==
    LET destroyed == {m \in DOMAIN Pre.mapMonsters : ~Has(S.mapMonsters, m)}
        emptied == {m \in DOMAIN Pre.maps :
                      /\ DOMAIN Pre.maps[m] # {}
                      /\ (Has(S.maps, m) => DOMAIN S.maps[m] = {})}
        h == ObserveEvents(S.hist, S.out, S.now)
    IN [S EXCEPT
          !.last.emptied = emptied,
          !.hist = [h EXCEPT
                      !.orphaned = (@ \cup {t.monsterId : t \in {u \in Pre.timers :
                                                                   u.mapId \in destroyed}})
                                   \cap {t.monsterId : t \in S.timers},
                      !.clock = IF S.now > Pre.now THEN @ + 1 ELSE @,
                      !.moves =
                          IF S.last.op \in {"join", "rejoin", "changeMap"} THEN @ + 1 ELSE @,
                      !.ticks = IF S.last.op = "tick" THEN @ + 1 ELSE @,
                      !.census = [m \in MapIds |->
                          IF DOMAIN RoomOf(S, m) = {} \/ ~Has(S.mapMonsters, m) THEN <<>>
                          ELSE IF ~Has(Pre.mapMonsters, m)
                          THEN <<Cardinality(DOMAIN S.mapMonsters[m])>>
                          ELSE @[m]]]]

Bounded(S) ==
    /\ S.nextMonsterId <= MaxMonsterId + 1
    /\ S.nextDropId <= MaxDropId + 1
    /\ S.hist.clock <= MaxClockSteps
    /\ S.hist.moves <= MaxMoves
    /\ S.hist.ticks <= MaxTicks

(* One step of the server: serve req, leaving S *)
Step(req, S) ==
    \E T \in {Observe(St, [S EXCEPT !.last = req])} : Bounded(T) /\ Commit(T)

-----------------------------------------------------------------------------
(* Initial state and actions *)

Init ==
    /\ now = 0
    /\ connected = [c \in Sockets |-> "new"]
    /\ currentPlayer = [c \in Sockets |-> NoPlayer]
    /\ currentMapId = [c \in Sockets |-> <<>>]
    /\ rooms = [m \in MapIds |-> {}]
    /\ maps = EmptyObj
    /\ playerSockets = EmptyObj
    /\ mapMonsters = EmptyObj
    /\ monsterDamage = EmptyObj
    /\ nextMonsterId = 1
    /\ mapSpawnData = EmptyObj
    /\ rateLimiters = EmptyObj
    /\ authorizedGMs = {}
    /\ currentEliteMonsters = EmptyObj
    /\ mapGroundItems = EmptyObj
    /\ nextDropId = 1
    /\ timers = {}
    /\ monsterAIInterval = FALSE
    /\ eliteCheckInterval = FALSE
    /\ out = <<>>
    /\ last = Req("start", 0)
    /\ hist = HistInit

Open(c) == connected[c] = "open"

(* io.on('connection') *)
Connect(c) ==
    /\ connected[c] = "new"
    /\ Step(Req("connection", c),
            Emit([St EXCEPT !.connected[c] = "open"], Event("serverStartTime", {c})))

(* The payload has no odId, no name or no mapId *)
Lacking(data) == ~data.isObject \/ data.odId = "" \/ data.name = "" \/ data.mapId = <<>>

(* last.phase: 1 after a join that installed its player; 2 after the join that follows
   such a join and the disconnect of its connection, with the same odId, name and mapId.
   last.snap: the room as the join of phase 1 left it *)
Join(c, data) ==
    /\ Open(c)
    /\ Step([Req("join", c) EXCEPT
                !.odId = data.odId, !.map = data.mapId, !.malformed = Lacking(data),
                !.phase = IF Lacking(data) THEN 0
                          ELSE IF /\ last.op = "disconnect" /\ last.phase = 1
                                  /\ last.odId = data.odId /\ last.map = data.mapId
                          THEN 2 ELSE 1,
                !.snap = IF Lacking(data) THEN <<>>
                         ELSE IF /\ last.op = "disconnect" /\ last.phase = 1
                                 /\ last.odId = data.odId /\ last.map = data.mapId
                         THEN last.snap
                         ELSE <<RoomSnapshot(join(St, c, data), data.mapId, c)>>],
            join(St, c, data))

Rejoin(c, data) ==
    /\ Open(c)
    /\ Step([Req("rejoin", c) EXCEPT !.odId = data.odId, !.map = data.mapId,
                                     !.malformed = Lacking(data)],
            rejoin(St, c, data))

UpdatePosition(c, x) ==
    /\ Open(c)
    /\ Step([Req("updatePosition", c) EXCEPT !.id = x], updatePosition(St, c, x))

(* last.onMap: the character of c was on newMapId already; last.again: the request
   before this one was the same changeMap of c, sent from newMapId *)
ChangeMap(c, newMapId, x) ==
    /\ Open(c)
    /\ Step([Req("changeMap", c) EXCEPT
                !.map = newMapId,
                !.onMap = /\ HasPlayer(St, c)
                          /\ currentMapId[c] = newMapId
                          /\ Has(RoomOf(St, newMapId), currentPlayer[c].odId),
                !.again = /\ last.op = "changeMap"
                          /\ last.socket = c
                          /\ last.map = newMapId
                          /\ last.onMap],
            changeMap(St, c, newMapId, x))

Relay(c, ev) ==
    /\ Open(c)
    /\ Step(Req(ev, c), relay(St, c, ev))

UpdateParty(c, partyId) ==
    /\ Open(c)
    /\ Step(Req("updateParty", c), updateParty(St, c, partyId))

UpdatePartyStats(c) ==
    /\ Open(c)
    /\ Step(Req("updatePartyStats", c), updatePartyStats(St, c))

InitMapMonsters(c, data, rnd) ==
    /\ Open(c)
    /\ Step([Req("initMapMonsters", c) EXCEPT !.map = data.mapId],
            initMapMonsters(St, c, data, rnd))

(* last.result: what damageMonster returned, "" when it was not called *)
AttackMonster(c, data, rnd) ==
    /\ Open(c)
    /\ Step([Req("attackMonster", c) EXCEPT
                !.damage = data.damage, !.id = data.monsterId,
                !.seq = data.seq, !.predictedHp = data.predictedHp,
                !.result = IF HasPlayer(St, c)
                           THEN DamageResult(St, currentMapId[c], data.monsterId, data.damage,
                                             currentPlayer[c].odId, data.seq, data.predictedHp)
                           ELSE ""],
            attackMonster(St, c, data, rnd))

ItemPickup(c, itemId) ==
    /\ Open(c)
    /\ Step([Req("itemPickup", c) EXCEPT !.id = itemId], itemPickup(St, c, itemId))

PlayerDropItem(c, name) ==
    /\ Open(c)
    /\ Step(Req("playerDropItem", c), playerDropItem(St, c, name))

SharePartyGold(c, totalAmount) ==
    /\ Open(c)
    /\ Step([Req("sharePartyGold", c) EXCEPT !.id = totalAmount],
            sharePartyGold(St, c, totalAmount))

(* The arithmetic and the two payloads of sharePartyGold for a party of totalMembers on
   the map, apart from any room *)
SplitGold(totalAmount, totalMembers) ==
    Step([Req("splitGold", 0) EXCEPT !.id = totalAmount],
         Emit(Emit(St, [Event("partyGoldShare", {}) EXCEPT
                          !.n = Shares(totalAmount, totalMembers).sharePerMember]),
              [Event("partyGoldShareResult", {}) EXCEPT
                 !.id = totalAmount, !.n = Shares(totalAmount, totalMembers).looterShare,
                 !.count = totalMembers]))

(* last.phase: 1 when the request before this one was the join of c *)
Disconnect(c) ==
    /\ Open(c)
    /\ Step(IF last.op = "join" /\ last.socket = c /\ last.phase >= 1
            THEN [Req("disconnect", c) EXCEPT !.odId = last.odId, !.map = last.map,
                                              !.phase = 1, !.snap = last.snap]
            ELSE Req("disconnect", c),
            disconnect(St, c))

(* The 10-second sweep; its phase against the other events is free *)
Sweep == Step(Req("sweep", 0), sweep(St))

(* A tick of the AI loop, once startMonsterAI has run; its phase against the other
   events is free *)
Tick(turns) ==
    /\ monsterAIInterval
    /\ Step(Req("tick", 0), broadcastMonsterPositions(updateAllMonsters(St, turns)))

(* The elite check timer fires, once startEliteCheckSystem has run; its delay is a draw
   between two and seven minutes, so its phase against the other events is free *)
EliteCheck(rnd) ==
    /\ eliteCheckInterval
    /\ Step(Req("eliteCheck", 0), attemptServerEliteSpawn(St, rnd))

TransformElite(c, data) ==
    /\ Open(c)
    /\ Step([Req("transformElite", c) EXCEPT !.id = data.monsterId],
            transformElite(St, c, data))

RequestMonsters(c) ==
    /\ Open(c)
    /\ Step(Req("requestMonsters", c), requestMonsters(St, c))

GmAuth(c, password) ==
    /\ Open(c)
    /\ Step([Req("gmAuth", c) EXCEPT !.result = password], gmAuth(St, c, password))

(* A pending timer fires when its time has come *)
TimerFire(t, rnd) ==
    /\ t \in timers
    /\ now >= t.fireAt
    /\ Step([Req("timer", 0) EXCEPT !.id = t.monsterId, !.map = t.mapId,
                                     !.orphaned = t.monsterId \in hist.orphaned],
            timerCallback(St, t, rnd))

(* Time passes, but not past a pending timer *)
AdvanceClock(d) ==
    /\ \A t \in timers : now + d <= t.fireAt
    /\ Step(Req("clock", 0), [St EXCEPT !.now = @ + d])

-----------------------------------------------------------------------------
(* What the clients send, and what Math.random() draws *)

Profile(odId, mapId, partyId) ==
    [isObject |-> TRUE, odId |-> odId, name |-> "n", mapId |-> mapId, x |-> DEFAULT_X,
     partyId |-> partyId, oldOdId |-> ""]

(* No payload, or null *)
NoPayload == [Profile("", <<>>, "") EXCEPT !.isObject = FALSE]

SlimeType ==
    [hp |-> 100, speed |-> 0, width |-> 0, aiType |-> "", isMiniBoss |-> FALSE,
     hasLoot |-> TRUE,
     loot |-> <<[name |-> "Gold", ratePct |-> 50, min |-> 1, max |-> 10]>>]

SlimeMap ==
    [hasMonsters |-> TRUE, monsters |-> <<>>,
     spawnPositions |-> <<[type |-> "slime", x |-> 200, surface |-> <<100, 400>>]>>,
     mapWidth |-> DEFAULT_MAP_WIDTH, hasTypes |-> TRUE,
     monsterTypes |-> [t \in {"slime"} |-> SlimeType]]

(* A map without monsters *)
QuietMap == [SlimeMap EXCEPT !.hasMonsters = FALSE, !.spawnPositions = <<>>]

SpawnDraw(u) == [dir |-> 1, shiny |-> FALSE, u |-> u]

KillDraw(lootHit) ==
    [lootHit |-> lootHit, gold |-> 0, salami |-> FALSE, tickets |-> 0, scrolls |-> 0]

Attack(monsterId, damage, playerDirection) ==
    [seq |-> <<>>, monsterId |-> monsterId, damage |-> damage,
     playerDirection |-> playerDirection, predictedHp |-> <<>>]

-----------------------------------------------------------------------------
(* Presence: any socket, any character, either map; the clock steps past the timeout *)

NextPresence ==
    \/ \E c \in Sockets : Connect(c)
    \/ \E c \in Sockets, o \in OdIds, m \in MapIds : Join(c, Profile(o, m, "p"))
    \/ \E c \in Sockets, o \in OdIds, m \in MapIds : Rejoin(c, Profile(o, m, "p"))
    \/ \E c \in Sockets, m \in MapIds : ChangeMap(c, m, DEFAULT_X)
    \/ \E c \in Sockets :
          InitMapMonsters(c, [mapId |-> currentMapId[c], mapData |-> QuietMap], <<>>)
    \/ \E c \in Sockets : Disconnect(c)
    \/ Sweep
    \/ AdvanceClock(PLAYER_TIMEOUT + 1)

SpecPresence == Init /\ [][NextPresence]_vars

-----------------------------------------------------------------------------
(* Relays: a connection joins once, as any character, then changes maps; every relay is
   sent; the clock steps past the timeout *)

NextRelay ==
    \/ \E c \in Sockets : Connect(c)
    \/ \E c \in Sockets, o \in OdIds, m \in MapIds :
          /\ currentPlayer[c].odId = ""
          /\ Join(c, Profile(o, m, "p"))
    \/ \E c \in Sockets, m \in MapIds : ChangeMap(c, m, DEFAULT_X)
    \/ \E c \in Sockets : UpdatePosition(c, DEFAULT_X)
    \/ \E c \in Sockets, ev \in Relays : Relay(c, ev)
    \/ \E c \in Sockets : UpdateParty(c, "p")
    \/ \E c \in Sockets : UpdatePartyStats(c)
    \/ \E c \in Sockets : Disconnect(c)
    \/ Sweep
    \/ AdvanceClock(PLAYER_TIMEOUT + 1)

SpecRelay == Init /\ [][NextRelay]_vars

-----------------------------------------------------------------------------
(* Combat in one room: socket 1 plays "A" and socket 2 plays "B" *)

CombatOdId(c) == IF c = 1 THEN "A" ELSE "B"

(* The requests of c's character the rate limiter remembers *)
Requests(c, action) ==
    IF Has(rateLimiters, currentPlayer[c].odId)
    THEN Len(rateLimiters[currentPlayer[c].odId][action]) ELSE 0

(* 25, 25.5, 50 and one above the cap *)
CombatDamages ==
    {Num(25), [kind |-> "num", half |-> 51], Num(50), Num(MAX_DAMAGE_PER_HIT + 1)}

NextCombat ==
    \/ \E c \in Sockets : Connect(c)
    \/ \E c \in Sockets :
          /\ currentPlayer[c].odId = ""
          /\ Join(c, Profile(CombatOdId(c), Town, ""))
    \/ \E c \in Sockets :
          InitMapMonsters(c, [mapId |-> Town, mapData |-> SlimeMap], <<SpawnDraw(0)>>)
    \/ \E c \in Sockets, m \in 1..MaxMonsterId, d \in CombatDamages :
          /\ Requests(c, "attacks") < MaxCombatAttacks
          /\ AttackMonster(c, Attack(m, d, <<1>>), KillDraw({}))
    \/ \E c \in Sockets : Disconnect(c)

SpecCombat == Init /\ [][NextCombat]_vars

-----------------------------------------------------------------------------
(* Respawn in one room: every hit kills, rooms come and go, and the clock steps by the
   respawn time *)

NextRespawn ==
    \/ \E c \in Sockets : Connect(c)
    \/ \E c \in Sockets :
          /\ currentPlayer[c].odId = ""
          /\ Join(c, Profile(CombatOdId(c), Town, ""))
    \/ \E c \in Sockets :
          InitMapMonsters(c, [mapId |-> Town, mapData |-> SlimeMap], <<SpawnDraw(0)>>)
    \/ \E c \in Sockets, m \in 1..MaxMonsterId :
          /\ Requests(c, "attacks") < MaxCombatAttacks
          /\ AttackMonster(c, Attack(m, Num(MAX_DAMAGE_PER_HIT), <<1>>), KillDraw({}))
    \/ \E c \in Sockets : Disconnect(c)
    \/ \E t \in timers, u \in 0..(RandomGrain - 1) : TimerFire(t, SpawnDraw(u))
    \/ AdvanceClock(RESPAWN_TIME)

SpecRespawn == Init /\ [][NextRespawn]_vars

-----------------------------------------------------------------------------
(* Ground items in one room: every hit kills, a kill may drop gold, players drop items,
   and both sockets pick up *)

NextItems ==
    \/ \E c \in Sockets : Connect(c)
    \/ \E c \in Sockets :
          /\ currentPlayer[c].odId = ""
          /\ Join(c, Profile(CombatOdId(c), Town, ""))
    \/ \E c \in Sockets :
          InitMapMonsters(c, [mapId |-> Town, mapData |-> SlimeMap], <<SpawnDraw(0)>>)
    \/ \E c \in Sockets, m \in 1..MaxMonsterId, lootHit \in SUBSET {1} :
          /\ Requests(c, "attacks") < MaxCombatAttacks
          /\ AttackMonster(c, Attack(m, Num(MAX_DAMAGE_PER_HIT), <<1>>), KillDraw(lootHit))
    \/ \E c \in Sockets, i \in 1..MaxDropId :
          /\ Requests(c, "pickups") < MaxPickups
          /\ ItemPickup(c, i)
    \/ \E c \in Sockets : PlayerDropItem(c, "Gold")
    \/ \E c \in Sockets : Disconnect(c)

SpecItems == Init /\ [][NextItems]_vars

-----------------------------------------------------------------------------
(* The attack rate: both sockets play "A", socket 1 in town and socket 2 elsewhere; the
   clock steps by three fifths of the rate window, or just past it *)

RateMap(c) == IF c = 1 THEN Town ELSE PqStage

(* A slime that survives one hit more than the limit allows in a window *)
ToughSlimeMap == [SlimeMap EXCEPT !.monsterTypes["slime"].hp = MAX_ATTACKS_PER_SECOND + 2]

NextRate ==
    \/ \E c \in Sockets : Connect(c)
    \/ \E c \in Sockets :
          /\ currentPlayer[c].odId = ""
          /\ Join(c, Profile("A", RateMap(c), ""))
    \/ \E c \in Sockets :
          InitMapMonsters(c, [mapId |-> Town, mapData |-> ToughSlimeMap], <<SpawnDraw(0)>>)
    \/ \E c \in Sockets, m \in 1..MaxMonsterId :
          AttackMonster(c, Attack(m, Num(1), <<>>), KillDraw({}))
    \/ \E c \in Sockets : Disconnect(c)
    \/ \E d \in {(3 * RATE_LIMIT_WINDOW) \div 5, RATE_LIMIT_WINDOW + 1} : AdvanceClock(d)

SpecRate == Init /\ [][NextRate]_vars

-----------------------------------------------------------------------------
(* Travel: a connection joins once, on either map, then changes maps; rooms get monsters
   and ground items *)

NextTravel ==
    \/ \E c \in Sockets : Connect(c)
    \/ \E c \in Sockets, m \in MapIds :
          /\ currentPlayer[c].odId = ""
          /\ Join(c, Profile(CombatOdId(c), m, ""))
    \/ \E c \in Sockets :
          InitMapMonsters(c, [mapId |-> currentMapId[c], mapData |-> SlimeMap],
                          <<SpawnDraw(0)>>)
    \/ \E c \in Sockets : PlayerDropItem(c, "Gold")
    \/ \E c \in Sockets, m \in MapIds : ChangeMap(c, m, DEFAULT_X)
    \/ \E c \in Sockets : Disconnect(c)

SpecTravel == Init /\ [][NextTravel]_vars

-----------------------------------------------------------------------------
(* Ingress: join and rejoin with every shape of payload: complete, without odId, without
   name, without mapId, and none at all *)

Payloads ==
    {Profile(o, Town, "") : o \in OdIds}
    \cup {Profile("", Town, ""), [Profile("A", Town, "") EXCEPT !.name = ""],
          Profile("A", <<>>, ""), NoPayload}

NextIngress ==
    \/ \E c \in Sockets : Connect(c)
    \/ \E c \in Sockets, data \in Payloads : Join(c, data)
    \/ \E c \in Sockets, data \in Payloads : Rejoin(c, data)
    \/ \E c \in Sockets : Disconnect(c)

SpecIngress == Init /\ [][NextIngress]_vars

-----------------------------------------------------------------------------
(* Prediction: attacks of 25 and 100 on a slime of 100 hp, without seq, with seq 0 and
   with seq 7, without predictedHp and with predictions that are 50 and 51 away from
   the hp the first hit leaves *)

Predicted(seq, damage, predictedHp) ==
    [Attack(1, damage, <<1>>) EXCEPT !.seq = seq, !.predictedHp = predictedHp]

NextPrediction ==
    \/ \E c \in Sockets : Connect(c)
    \/ \E c \in Sockets :
          /\ currentPlayer[c].odId = ""
          /\ Join(c, Profile(CombatOdId(c), Town, ""))
    \/ \E c \in Sockets :
          InitMapMonsters(c, [mapId |-> Town, mapData |-> SlimeMap], <<SpawnDraw(0)>>)
    \/ \E c \in Sockets, seq \in {<<>>, <<0>>, <<7>>}, d \in {Num(25), Num(100)},
          predictedHp \in {<<>>, <<25>>, <<126>>} :
          /\ Requests(c, "attacks") < MaxCombatAttacks
          /\ AttackMonster(c, Predicted(seq, d, predictedHp), KillDraw({}))
    \/ \E c \in Sockets : Disconnect(c)

SpecPrediction == Init /\ [][NextPrediction]_vars

-----------------------------------------------------------------------------
(* Party gold: a connection joins once, on either map, in party "p" or in none; players
   change party and share gold *)

Parties == {"", "p", "q"}

NextParty ==
    \/ \E c \in Sockets : Connect(c)
    \/ \E c \in Sockets, m \in MapIds, partyId \in {"", "p"} :
          /\ currentPlayer[c].odId = ""
          /\ Join(c, Profile(CombatOdId(c), m, partyId))
    \/ \E c \in Sockets, partyId \in Parties : UpdateParty(c, partyId)
    \/ \E c \in Sockets, totalAmount \in {0, 1, 100} : SharePartyGold(c, totalAmount)
    \/ \E c \in Sockets : Disconnect(c)

SpecParty == Init /\ [][NextParty]_vars

-----------------------------------------------------------------------------
(* The split of every amount up to MaxAmount among every party of 2 to MaxMembers *)

NextSplit == \E totalAmount \in 1..MaxAmount, totalMembers \in 2..MaxMembers :
                SplitGold(totalAmount, totalMembers)

SpecSplit == Init /\ [][NextSplit]_vars

-----------------------------------------------------------------------------
(* Patrol: one room, whose first visitor sends one of four topologies; the AI loop ticks,
   players hit the monster, and the clock steps past the chase timeout *)

ImpType ==
    [hp |-> 100, speed |-> 100, width |-> 0, aiType |-> "", isMiniBoss |-> FALSE,
     hasLoot |-> FALSE, loot |-> <<>>]

(* A monster wider than the edge buffer *)
GolemType == [ImpType EXCEPT !.width = 100]

DummyType == [ImpType EXCEPT !.aiType = "static"]

Bestiary ==
    [t \in {"imp", "golem", "dummy"} |->
        CASE t = "imp" -> ImpType [] t = "golem" -> GolemType [] OTHER -> DummyType]

OneSpawn(type, x, surface, mapWidth) ==
    [hasMonsters |-> TRUE, monsters |-> <<>>,
     spawnPositions |-> <<[type |-> type, x |-> x, surface |-> surface]>>,
     mapWidth |-> mapWidth, hasTypes |-> TRUE, monsterTypes |-> Bestiary]

(* An imp on a ledge of 160; a golem on a platform that ends
   at the right edge of the map; a dummy near the right edge; an imp on a platform at
   1400 of a map whose data carries no mapWidth *)
PatrolMaps ==
    {OneSpawn("imp", 680, <<600, 160>>, DEFAULT_MAP_WIDTH),
     OneSpawn("golem", 1200, <<966, 400>>, DEFAULT_MAP_WIDTH),
     OneSpawn("dummy", 1350, <<966, 400>>, DEFAULT_MAP_WIDTH),
     OneSpawn("imp", 1500, <<1400, 400>>, 0)}

NextPatrol ==
    \/ \E c \in Sockets : Connect(c)
    \/ \E c \in Sockets :
          /\ currentPlayer[c].odId = ""
          /\ Join(c, Profile(CombatOdId(c), Town, ""))
    \/ \E c \in Sockets, mapData \in PatrolMaps :
          InitMapMonsters(c, [mapId |-> Town, mapData |-> mapData], <<SpawnDraw(0)>>)
    \/ \E c \in Sockets, m \in 1..MaxMonsterId :
          /\ Requests(c, "attacks") < MaxCombatAttacks
          /\ AttackMonster(c, Attack(m, Num(25), <<1>>), KillDraw({}))
    \/ \E turns \in {{}, MonsterIds} : Tick(turns)
    \/ \E c \in Sockets : Disconnect(c)
    \/ AdvanceClock(CHASE_TIMEOUT + 1)

SpecPatrol == Init /\ [][NextPatrol]_vars

-----------------------------------------------------------------------------
(* Chase: one room with a fast, wide monster on a floor as wide as the map; the players
   stand to its right and hit it, with and without a knockback; the AI loop ticks, and
   the clock steps past the knockback *)

SprinterType == [ImpType EXCEPT !.speed = 800, !.width = 100]

ChaseMap ==
    [OneSpawn("sprinter", 750, <<0, DEFAULT_MAP_WIDTH>>, DEFAULT_MAP_WIDTH) EXCEPT
        !.monsterTypes = [t \in {"sprinter"} |-> SprinterType]]

NextChase ==
    \/ \E c \in Sockets : Connect(c)
    \/ \E c \in Sockets :
          /\ currentPlayer[c].odId = ""
          /\ Join(c, [Profile(CombatOdId(c), Town, "") EXCEPT !.x = 1300])
    \/ \E c \in Sockets :
          InitMapMonsters(c, [mapId |-> Town, mapData |-> ChaseMap], <<SpawnDraw(0)>>)
    \/ \E c \in Sockets, m \in 1..MaxMonsterId, playerDirection \in {<<>>, <<1>>} :
          /\ Requests(c, "attacks") < MaxCombatAttacks
          /\ AttackMonster(c, Attack(m, Num(25), playerDirection), KillDraw({}))
    \/ \E turns \in {{}, MonsterIds} : Tick(turns)
    \/ \E c \in Sockets : Disconnect(c)
    \/ AdvanceClock(KNOCKBACK_DURATION + 1)

SpecChase == Init /\ [][NextChase]_vars

-----------------------------------------------------------------------------
(* Elites: a connection joins once, in town or on the party-quest stage, and changes
   maps; rooms get monsters; the elite check fires, and clients ask for a promotion *)

EliteRequest(monsterId) ==
    [monsterId |-> monsterId, maxHp |-> 100 * ELITE_HP_MULTIPLIER,
     damage |-> DEFAULT_DAMAGE * ELITE_DAMAGE_MULTIPLIER, originalMaxHp |-> 100,
     originalDamage |-> DEFAULT_DAMAGE]

NextElite ==
    \/ \E c \in Sockets : Connect(c)
    \/ \E c \in Sockets, m \in MapIds :
          /\ currentPlayer[c].odId = ""
          /\ Join(c, Profile(CombatOdId(c), m, ""))
    \/ \E c \in Sockets, m \in MapIds : ChangeMap(c, m, DEFAULT_X)
    \/ \E c \in Sockets :
          InitMapMonsters(c, [mapId |-> currentMapId[c], mapData |-> SlimeMap],
                          <<SpawnDraw(0)>>)
    \/ \E lucky \in SUBSET MapIds, u \in 0..(RandomGrain - 1) :
          EliteCheck([lucky |-> lucky, u |-> u])
    \/ \E c \in Sockets, m \in 1..MaxMonsterId : TransformElite(c, EliteRequest(m))
    \/ \E c \in Sockets : Disconnect(c)

SpecElite == Init /\ [][NextElite]_vars

-----------------------------------------------------------------------------
(* Corpses: one room whose slime is killed by every hit; the AI loop ticks, clients ask
   for the monsters and for a promotion of the first monster, rooms come and go, and the
   clock steps by the respawn time *)

NextCorpse ==
    \/ \E c \in Sockets : Connect(c)
    \/ \E c \in Sockets :
          /\ currentPlayer[c].odId = ""
          /\ Join(c, Profile(CombatOdId(c), Town, ""))
    \/ \E c \in Sockets :
          InitMapMonsters(c, [mapId |-> Town, mapData |-> SlimeMap], <<SpawnDraw(0)>>)
    \/ \E c \in Sockets, m \in 1..MaxMonsterId :
          /\ Requests(c, "attacks") < MaxCombatAttacks
          /\ AttackMonster(c, Attack(m, Num(MAX_DAMAGE_PER_HIT), <<>>), KillDraw({}))
    \/ \E turns \in {{}, MonsterIds} : Tick(turns)
    \/ \E c \in Sockets : RequestMonsters(c)
    \/ \E c \in Sockets : TransformElite(c, EliteRequest(1))
    \/ \E c \in Sockets : Disconnect(c)
    \/ \E t \in timers : TimerFire(t, SpawnDraw(0))
    \/ AdvanceClock(RESPAWN_TIME)

SpecCorpse == Init /\ [][NextCorpse]_vars

-----------------------------------------------------------------------------
(* Staleness: a connection joins once, on either map, moves and leaves; the clock steps
   past the timeout.  setInterval calls the sweep every 10 seconds for as long as the
   process runs, so the sweep is not postponed forever *)

NextStale ==
    \/ \E c \in Sockets : Connect(c)
    \/ \E c \in Sockets, m \in MapIds :
          /\ currentPlayer[c].odId = ""
          /\ Join(c, Profile(CombatOdId(c), m, ""))
    \/ \E c \in Sockets : UpdatePosition(c, DEFAULT_X)
    \/ \E c \in Sockets : Disconnect(c)
    \/ Sweep
    \/ AdvanceClock(PLAYER_TIMEOUT + 1)

SpecStale == Init /\ [][NextStale]_vars /\ WF_vars(Sweep)

-----------------------------------------------------------------------------
(* A burst of position updates: a connection joins once, at x 1, and sends its updates
   with x 2, 3, ... one after the other; no time passes *)

NextBurst ==
    \/ \E c \in Sockets : Connect(c)
    \/ \E c \in Sockets :
          /\ currentPlayer[c].odId = ""
          /\ Join(c, [Profile(CombatOdId(c), Town, "") EXCEPT !.x = 1])
    \/ \E c \in Sockets, x \in 2..(MaxBurst + 1) :
          /\ x = currentPlayer[c].x + 1
          /\ UpdatePosition(c, x)
    \/ \E c \in Sockets : Disconnect(c)

SpecBurst == Init /\ [][NextBurst]_vars

-----------------------------------------------------------------------------
(* Return: connections join the town as any character, more than once; the room gets
   monsters and ground items; connections leave *)

NextReturn ==
    \/ \E c \in Sockets : Connect(c)
    \/ \E c \in Sockets, o \in OdIds : Join(c, Profile(o, Town, ""))
    \/ \E c \in Sockets :
          InitMapMonsters(c, [mapId |-> Town, mapData |-> SlimeMap], <<SpawnDraw(0)>>)
    \/ \E c \in Sockets : PlayerDropItem(c, "Gold")
    \/ \E c \in Sockets : Disconnect(c)

SpecReturn == Init /\ [][NextReturn]_vars

-----------------------------------------------------------------------------
(* Damage: attacks on one slime with every kind of asserted damage: not a number, NaN,
   the two infinities, -1, 0, 0.5, 25.5, the cap, and half a point and one point above it *)

Other(kind) == [kind |-> kind, half |-> 0]

Damages ==
    {Other("str"), Other("NaN"), Other("inf"), Other("ninf"), Num(-1), Num(0),
     [kind |-> "num", half |-> 1], [kind |-> "num", half |-> 51], Num(MAX_DAMAGE_PER_HIT),
     [kind |-> "num", half |-> (2 * MAX_DAMAGE_PER_HIT) + 1], Num(MAX_DAMAGE_PER_HIT + 1)}

NextDamage ==
    \/ \E c \in Sockets : Connect(c)
    \/ \E c \in Sockets :
          /\ currentPlayer[c].odId = ""
          /\ Join(c, Profile(CombatOdId(c), Town, ""))
    \/ \E c \in Sockets :
          InitMapMonsters(c, [mapId |-> Town, mapData |-> SlimeMap], <<SpawnDraw(0)>>)
    \/ \E c \in Sockets, m \in 1..MaxMonsterId, d \in Damages :
          /\ Requests(c, "attacks") < MaxCombatAttacks
          /\ AttackMonster(c, Attack(m, d, <<1>>), KillDraw({}))
    \/ \E c \in Sockets : Disconnect(c)

SpecDamage == Init /\ [][NextDamage]_vars

-----------------------------------------------------------------------------
(* Rebirth: one room, in town or on the party-quest stage, with a slime or with a
   mini-boss; every hit kills, players come and go, and the clock steps by the respawn
   time of either *)

BossMap ==
    [SlimeMap EXCEPT
        !.spawnPositions = <<[type |-> "boss", x |-> 200, surface |-> <<100, 400>>]>>,
        !.monsterTypes = [t \in {"boss"} |-> [SlimeType EXCEPT !.isMiniBoss = TRUE]]]

NextRebirth ==
    \/ \E c \in Sockets : Connect(c)
    \/ \E c \in Sockets, m \in MapIds :
          /\ currentPlayer[c].odId = ""
          /\ Join(c, Profile(CombatOdId(c), m, ""))
    \/ \E c \in Sockets, mapData \in {SlimeMap, BossMap} :
          InitMapMonsters(c, [mapId |-> currentMapId[c], mapData |-> mapData],
                          <<SpawnDraw(0)>>)
    \/ \E c \in Sockets, m \in 1..MaxMonsterId :
          /\ Requests(c, "attacks") < MaxCombatAttacks
          /\ AttackMonster(c, Attack(m, Num(MAX_DAMAGE_PER_HIT), <<1>>), KillDraw({}))
    \/ \E c \in Sockets : Disconnect(c)
    \/ \E t \in timers, u \in 0..(RandomGrain - 1) : TimerFire(t, SpawnDraw(u))
    \/ \E d \in {PQ_CORPSE_DELAY, RESPAWN_TIME, BOSS_RESPAWN_TIME} : AdvanceClock(d)

SpecRebirth == Init /\ [][NextRebirth]_vars

-----------------------------------------------------------------------------
(* GM sessions: connections authenticate with the right or a wrong password, before or
   after joining a map, and disconnect *)

Passwords == {GM_PASSWORD, "guess"}

NextGm ==
    \/ \E c \in Sockets : Connect(c)
    \/ \E c \in Sockets, m \in MapIds : Join(c, Profile(CombatOdId(c), m, ""))
    \/ \E c \in Sockets, m \in MapIds : ChangeMap(c, m, DEFAULT_X)
    \/ \E c \in Sockets, password \in Passwords : GmAuth(c, password)
    \/ \E c \in Sockets : Disconnect(c)

SpecGm == Init /\ [][NextGm]_vars

-----------------------------------------------------------------------------
(* Calm: one room with one monster; the first player attacks it, with or without
   knockback, and may leave while the second stays; the clock steps past the chase
   timeout; the AI loop is fair *)

NextCalm ==
    \/ \E c \in Sockets : Connect(c)
    \/ \E c \in Sockets :
          /\ currentPlayer[c].odId = ""
          /\ \A d \in Sockets : Open(d)
          /\ Join(c, [Profile(CombatOdId(c), Town, "") EXCEPT !.x = 1300])
    \/ InitMapMonsters(1, [mapId |-> Town, mapData |-> ChaseMap], <<SpawnDraw(0)>>)
    \/ \E playerDirection \in {<<>>, <<1>>} :
          /\ Requests(1, "attacks") < 1
          /\ AttackMonster(1, Attack(1, Num(25), playerDirection), KillDraw({}))
    \/ Tick({})
    \/ Disconnect(1)
    \/ AdvanceClock(CHASE_TIMEOUT + 1)

SpecCalm == Init /\ [][NextCalm]_vars /\ WF_vars(Tick({}))

-----------------------------------------------------------------------------
(* Knockback: an imp on a ledge of 160 with the players far to its right; attacks come
   with no direction, from the left and from the right, and the AI loop lets the imp
   chase off its ledge *)

LedgeMap == OneSpawn("imp", 680, <<600, 160>>, DEFAULT_MAP_WIDTH)

NextKnock ==
    \/ \E c \in Sockets : Connect(c)
    \/ \E c \in Sockets :
          /\ currentPlayer[c].odId = ""
          /\ Join(c, [Profile(CombatOdId(c), Town, "") EXCEPT !.x = 1300])
    \/ \E c \in Sockets :
          InitMapMonsters(c, [mapId |-> Town, mapData |-> LedgeMap], <<SpawnDraw(0)>>)
    \/ \E c \in Sockets, m \in 1..MaxMonsterId, playerDirection \in {<<>>, <<1>>, <<-1>>} :
          /\ Requests(c, "attacks") < MaxCombatAttacks
          /\ AttackMonster(c, Attack(m, Num(25), playerDirection), KillDraw({}))
    \/ \E turns \in {{}, MonsterIds} : Tick(turns)
    \/ \E c \in Sockets : Disconnect(c)
    \/ AdvanceClock(KNOCKBACK_DURATION + 1)

SpecKnock == Init /\ [][NextKnock]_vars

-----------------------------------------------------------------------------
(* Crown: one room in town with two slimes that drop nothing; the timed promoter and the
   clients promote, every hit kills, players leave, killed slimes respawn *)

TwinMap ==
    [SlimeMap EXCEPT
        !.spawnPositions = <<[type |-> "slime", x |-> 200, surface |-> <<100, 400>>],
                             [type |-> "slime", x |-> 300, surface |-> <<100, 400>>]>>,
        !.monsterTypes = [t \in {"slime"} |-> [SlimeType EXCEPT !.hasLoot = FALSE]]]

NextCrown ==
    \/ \E c \in Sockets : Connect(c)
    \/ \E c \in Sockets :
          /\ currentPlayer[c].odId = ""
          /\ Join(c, Profile(CombatOdId(c), Town, ""))
    \/ \E c \in Sockets :
          InitMapMonsters(c, [mapId |-> Town, mapData |-> TwinMap],
                          <<SpawnDraw(0), SpawnDraw(0)>>)
    \/ \E lucky \in {{}, {Town}}, u \in 0..(RandomGrain - 1) :
          EliteCheck([lucky |-> lucky, u |-> u])
    \/ \E c \in Sockets, m \in 1..MaxMonsterId : TransformElite(c, EliteRequest(m))
    \/ \E c \in Sockets, m \in 1..MaxMonsterId :
          /\ Requests(c, "attacks") < 1
          /\ AttackMonster(c, Attack(m, Num(MAX_DAMAGE_PER_HIT), <<>>), KillDraw({}))
    \/ \E c \in Sockets : Disconnect(c)
    \/ \E t \in timers : TimerFire(t, SpawnDraw(0))
    \/ AdvanceClock(RESPAWN_TIME)

SpecCrown == Init /\ [][NextCrown]_vars

-----------------------------------------------------------------------------
(* Survey: players of either map send initMapMonsters for either map, with or without a
   catalog of monster types; every hit kills, and on the party-quest stage the corpse is
   removed without a respawn *)

BareMap == [SlimeMap EXCEPT !.hasTypes = FALSE, !.monsterTypes = EmptyObj]

NextSurvey ==
    \/ \E c \in Sockets : Connect(c)
    \/ \E c \in Sockets, m \in MapIds :
          /\ currentPlayer[c].odId = ""
          /\ Join(c, Profile(CombatOdId(c), m, ""))
    \/ \E c \in Sockets, m \in MapIds, mapData \in {SlimeMap, BareMap} :
          InitMapMonsters(c, [mapId |-> m, mapData |-> mapData], <<SpawnDraw(0)>>)
    \/ \E c \in Sockets, m \in 1..MaxMonsterId :
          /\ Requests(c, "attacks") < 1
          /\ AttackMonster(c, Attack(m, Num(MAX_DAMAGE_PER_HIT), <<>>), KillDraw({}))
    \/ \E c \in Sockets : Disconnect(c)
    \/ \E t \in timers : TimerFire(t, SpawnDraw(0))
    \/ AdvanceClock(PQ_CORPSE_DELAY)

SpecSurvey == Init /\ [][NextSurvey]_vars

-----------------------------------------------------------------------------
(* Properties *)

Events(ev) == {i \in 1..Len(out) : out[i].ev = ev}

(* C1: every odId is in the player map of at most one room *)
C1_OneRoomPerOdId ==
    \A o \in OdIds : Cardinality({m \in DOMAIN maps : Has(maps[m], o)}) <= 1

(* C2: itemPickedUp is broadcast at most once for a ground item id *)
C2_PickedUpOnce == \A d \in DropIds : hist.picked[d] <= 1

(* An item was picked up, and the pickup just served asked for it again *)
C2_Witness ==
    /\ last.op = "itemPickup"
    /\ hist.picked[last.id] = 1
    /\ Events("itemPickupRejected") # {}
    /\ Events("itemPickedUp") = {}

ServerState ==
    <<maps, rooms, playerSockets, mapMonsters, monsterDamage, nextMonsterId, mapSpawnData,
      rateLimiters, authorizedGMs, currentEliteMonsters, mapGroundItems, nextDropId>>

(* C3: the respawn callback of a monster whose room was destroyed after the kill changes
   no server state and emits nothing *)
C3_OrphanedRespawnInert ==
    [][(last'.op = "timer" /\ last'.orphaned) => (out' = <<>> /\ ServerState' = ServerState)]_vars

(* C4: of the attacks of one odId that were applied, no eleven fall within one
   rate-limit window *)
C4_TenPerWindow ==
    \A o \in OdIds :
        Len(hist.applied[o]) > MAX_ATTACKS_PER_SECOND
        => hist.applied[o][MAX_ATTACKS_PER_SECOND + 1] - hist.applied[o][1]
           >= RATE_LIMIT_WINDOW

(* C5: an asserted damage above the cap is broadcast as the cap, with isCritical false *)
C5_CappedNotCritical ==
    \A i \in Events("monsterDamaged") :
        (last.damage.kind = "num" /\ last.damage.half > 2 * MAX_DAMAGE_PER_HIT)
        => (out[i].n = MAX_DAMAGE_PER_HIT /\ ~out[i].flag)

Dealt(m, o) == hist.dealt[<<m, o>>]

(* C6: the lootRecipient of a kill is an attacker whose cumulative damage to the monster
   is maximal; it is absent only when nobody damaged the monster *)
C6_RecipientIsTopDamager ==
    \A i \in Events("monsterKilled") :
        IF out[i].odId = ""
        THEN \A o \in OdIds : Dealt(out[i].id, o) = 0
        ELSE /\ out[i].odId \in OdIds
             /\ Dealt(out[i].id, out[i].odId) > 0
             /\ \A o \in OdIds : Dealt(out[i].id, o) <= Dealt(out[i].id, out[i].odId)

(* A kill after both attackers damaged the monster, by different amounts, and the one
   who hit first dealt less *)
C6_Witness ==
    \E i \in Events("monsterKilled") :
        /\ out[i].odId = "B"
        /\ Dealt(out[i].id, "A") > 0
        /\ Dealt(out[i].id, "B") > Dealt(out[i].id, "A")
        /\ hist.firstHit[<<out[i].id, "A">>] < hist.firstHit[<<out[i].id, "B">>]

Tied(i, o) == Dealt(out[i].id, o) = Dealt(out[i].id, out[i].odId)

(* C7: when several attackers share the maximum, the lootRecipient is the one whose
   total reached that value first *)
C7_FirstToReachMaximum ==
    \A i \in Events("monsterKilled") :
        out[i].odId # ""
        => \A o \in OdIds :
              Tied(i, o)
              => hist.lastHit[<<out[i].id, out[i].odId>>] <= hist.lastHit[<<out[i].id, o>>]

(* C7, as the code has it: when several attackers share the maximum, the lootRecipient
   is the one among them who damaged the monster first *)
C7_FirstAttackerAmongTop ==
    \A i \in Events("monsterKilled") :
        out[i].odId # ""
        => \A o \in OdIds :
              Tied(i, o)
              => hist.firstHit[<<out[i].id, out[i].odId>>] <= hist.firstHit[<<out[i].id, o>>]

(* A kill with a tie: the recipient hit first, the other reached the maximum first *)
C7_Witness ==
    \E i \in Events("monsterKilled"), o \in OdIds :
        /\ out[i].odId # ""
        /\ o # out[i].odId
        /\ Tied(i, o)
        /\ hist.firstHit[<<out[i].id, out[i].odId>>] < hist.firstHit[<<out[i].id, o>>]
        /\ hist.lastHit[<<out[i].id, o>>] < hist.lastHit[<<out[i].id, out[i].odId>>]

Alive(m) == \E mapId \in DOMAIN mapMonsters :
               Has(mapMonsters[mapId], m) /\ ~mapMonsters[mapId][m].isDead

(* C8: while a monster is alive, the ledger entry of each attacker is the sum of the
   damage fields of the monsterDamaged events for that monster and attacker *)
C8_LedgerIsSumOfBroadcasts ==
    \A m \in MonsterIds :
        Alive(m)
        => /\ Has(monsterDamage, m)
           /\ \A o \in OdIds : LedgerGet(monsterDamage[m], o) = Dealt(m, o)

(* A living monster that one attacker hit twice, once with a fraction, and another once *)
C8_Witness ==
    \E m \in MonsterIds :
        /\ Alive(m)
        /\ Events("monsterDamaged") # {}
        /\ last.damage.half = 51
        /\ Dealt(m, "A") = 50
        /\ Dealt(m, "B") = 25

RelayEvents == Relays \cup {"playerMoved", "playerPartyUpdated", "partyMemberStats"}

(* The character of connection c is in the player map of room m *)
Present(c, m) ==
    /\ currentPlayer[c].odId # ""
    /\ Has(maps, m)
    /\ Has(maps[m], currentPlayer[c].odId)

(* C9: a relay goes only to connections whose player is present in the room of the
   sender, and never to the sender *)
C9_RelayStaysInRoom ==
    \A i \in 1..Len(out) :
        out[i].ev \in RelayEvents
        => \A r \in out[i].to : r # last.socket /\ Present(r, out[i].map)

NoRoomState(m) ==
    ~Has(mapMonsters, m) /\ ~Has(mapSpawnData, m) /\ ~Has(mapGroundItems, m)

(* C10: after a rejoin, changeMap, disconnect or sweep, a map the transition left without
   players has no room state *)
C10_EmptiedRoomDestroyed ==
    last.op \in {"rejoin", "changeMap", "disconnect", "sweep"}
    => \A m \in last.emptied : NoRoomState(m)

(* The room state of map m: its player set, monsters, topology and ground items *)
RoomState(m) ==
    <<DOMAIN RoomOf(St, m),
      IF Has(mapMonsters, m) THEN <<mapMonsters[m]>> ELSE <<>>,
      IF Has(mapSpawnData, m) THEN <<mapSpawnData[m]>> ELSE <<>>,
      IF Has(mapGroundItems, m) THEN <<mapGroundItems[m]>> ELSE <<>>>>

(* C11: a changeMap(X) that follows at once a changeMap(X) of the same connection, whose
   player was on X before the first, leaves the room state of X as the first left it *)
C11_SecondChangeMapKeepsRoom ==
    [][\A m \in MapIds :
          (last'.op = "changeMap" /\ last'.again /\ last'.map = m)
          => RoomState(m)' = RoomState(m)]_vars

(* The second changeMap(X) was served, and the player is in the room *)
C11_Witness ==
    /\ last.op = "changeMap"
    /\ last.again
    /\ currentPlayer[last.socket].odId \in DOMAIN RoomOf(St, last.map)
    /\ Events("playerJoined") # {}

(* C12: of the itemPickup requests for an item that was on the ground of the room, the
   first served is answered by one itemPickedUp to the room that names the requester and
   by nothing else; a later one by one itemPickupRejected (already_picked_up) to the
   requester alone and by nothing else *)
C12_OnePickedUpOneRejected ==
    (/\ last.op = "itemPickup"
     /\ currentPlayer[last.socket].odId # ""
     /\ hist.picked[last.id] >= 1)
    => /\ Len(out) = 1
       /\ out[1].id = last.id
       /\ \/ /\ out[1].ev = "itemPickedUp"
             /\ hist.picked[last.id] = 1
             /\ out[1].odId = currentPlayer[last.socket].odId
             /\ out[1].to = rooms[currentMapId[last.socket]]
          \/ /\ out[1].ev = "itemPickupRejected"
             /\ out[1].name = "already_picked_up"
             /\ out[1].to = {last.socket}

(* The second request came from another player than the one who got the item, while
   both connections were subscribed to the room *)
C12_Witness ==
    /\ last.op = "itemPickup"
    /\ hist.picked[last.id] = 1
    /\ Events("itemPickupRejected") # {}
    /\ hist.picker[last.id] \notin {"", currentPlayer[last.socket].odId}
    /\ rooms[currentMapId[last.socket]] = Sockets

(* C13: an attackMonster that the attack rate limiter rejects changes no monster and no
   damage ledger, and emits nothing (no monsterDamaged, monsterKilled, attackCorrection) *)
C13_RateLimitedAttackInert ==
    [][(last'.op = "attackMonster" /\ last'.result = "rateLimited")
       => (mapMonsters' = mapMonsters /\ monsterDamage' = monsterDamage /\ out' = <<>>)]_vars

(* A rejected attack on a living monster that earlier attacks had damaged *)
C13_Witness ==
    /\ last.op = "attackMonster"
    /\ last.result = "rateLimited"
    /\ Alive(last.id)
    /\ Dealt(last.id, currentPlayer[last.socket].odId) = MAX_ATTACKS_PER_SECOND

(* C14: a join or rejoin whose payload lacks odId, name or mapId sends one error, to the
   sender alone, and changes no server state: no room, no player, no subscription *)
C14_MalformedJoinRejected ==
    [][(last'.op \in {"join", "rejoin"} /\ last'.malformed)
       => /\ Len(out') = 1
          /\ out'[1].ev = "error"
          /\ out'[1].to = {last'.socket}
          /\ ServerState' = ServerState
          /\ currentPlayer' = currentPlayer
          /\ currentMapId' = currentMapId]_vars

HpCorrections == {i \in Events("attackCorrection") : out[i].name = "hp_correction"}

(* The applied attack carried seq and predictedHp, did not kill, and left the monster
   more than 50 hp away from the prediction *)
Mispredicted(i) ==
    /\ IsDef(last.seq)
    /\ IsDef(last.predictedHp)
    /\ Events("monsterKilled") = {}
    /\ Abs(out[i].hp - last.predictedHp[1]) > HP_CORRECTION_THRESHOLD

(* C15: an hp_correction is sent exactly when the applied attack carried seq and
   predictedHp, did not kill, and left the hp more than 50 away from predictedHp; it goes
   to the attacker alone, and monsterDamaged carries the hp of the server *)
C15_CorrectionIffMispredicted ==
    last.op = "attackMonster"
    => /\ \A i \in Events("monsterDamaged") :
             /\ Mispredicted(i) <=> HpCorrections # {}
             /\ Events("monsterKilled") = {}
                => out[i].hp = mapMonsters[out[i].map][out[i].id].hp
       /\ Events("monsterDamaged") = {} => HpCorrections = {}
       /\ Cardinality(HpCorrections) <= 1
       /\ \A i \in HpCorrections :
             /\ out[i].to = {last.socket}
             /\ out[i].hp = mapMonsters[currentMapId[last.socket]][out[i].id].hp

(* The players of the looter's room, other than the looter, in the looter's party *)
Peers(c) ==
    {o \in DOMAIN RoomOf(St, currentMapId[c]) \ {currentPlayer[c].odId} :
        maps[currentMapId[c]][o].partyId = currentPlayer[c].partyId}

(* The partyGoldShare events that reach the connection of player o *)
SharesTo(o) ==
    {i \in Events("partyGoldShare") : Has(playerSockets, o) /\ playerSockets[o] \in out[i].to}

(* C16: when a looter with a partyId and at least one party member in the room shares
   gold, each other player of the room in that party receives exactly one partyGoldShare,
   of amount share, and no other player receives one *)
C16_SharePerPeer ==
    (/\ last.op = "sharePartyGold"
     /\ last.id > 0
     /\ currentPlayer[last.socket].partyId # ""
     /\ Peers(last.socket) # {})
    => \A o \in OdIds :
          IF o \in Peers(last.socket)
          THEN /\ Cardinality(SharesTo(o)) = 1
               /\ \A i \in SharesTo(o) :
                     out[i].n = Shares(last.id, Cardinality(Peers(last.socket)) + 1).sharePerMember
          ELSE SharesTo(o) = {}

(* What a split hands out: share to each of the other members, and the looter's share *)
HandedOut == (out[1].n * (out[2].count - 1)) + out[2].n

(* C17: for a positive integer totalAmount and M >= 2 members, share and looterShare are
   at least 1, and share * (M - 1) + looterShare is at least totalAmount and exceeds it by
   at most M - 1 *)
C17_SplitCoversAmount ==
    last.op = "splitGold"
    => /\ out[1].n = Max(1, Ceil(last.id, out[2].count))
       /\ out[1].n >= 1
       /\ out[2].n >= 1
       /\ HandedOut >= last.id
       /\ HandedOut - last.id <= out[2].count - 1

(* One gold among three: each gets 1, two more than there was *)
C17_Witness ==
    /\ last.op = "splitGold"
    /\ last.id = 1
    /\ out[2].count = 3
    /\ HandedOut = last.id + 2

(* The monsters of all rooms, dead or alive *)
Monsters == UNION {{mapMonsters[mapId][id] : id \in DOMAIN mapMonsters[mapId]} :
                     mapId \in DOMAIN mapMonsters}

(* C18: every monster has patrolMinX <= patrolMaxX, in every reachable state *)
C18_PatrolBoundsOrdered == \A monster \in Monsters : monster.patrolMinX <= monster.patrolMaxX

(* C19: after a tick, every live monster that is not chasing is within the map *)
C19_WithinMapAfterTick ==
    last.op = "tick"
    => \A monster \in Monsters :
          (~monster.isDead /\ monster.aiState # "chasing")
          => (0 <= monster.x /\ monster.x <= monster.mapWidth - monster.width)

(* The monster was spawned on a surface whose patrol width is below the minimum *)
Pinned(monster) ==
    /\ IsDef(monster.patrolSurface)
    /\ monster.patrolSurface[2] - (2 * EDGE_BUFFER) < MIN_PATROL_DISTANCE

(* C20: after a tick, a living monster of a narrow surface that nobody has attacked is
   idle, with velocityX 0 and x within 10 of the centre of the surface *)
C20_PinnedStaysIdle ==
    last.op = "tick"
    => \A monster \in Monsters :
          (/\ Pinned(monster)
           /\ ~monster.isDead
           /\ \A o \in OdIds : Dealt(monster.id, o) = 0)
          => /\ monster.aiState = "idle"
             /\ monster.velocityX = 0
             /\ Abs(monster.x - (monster.patrolSurface[1] + (monster.patrolSurface[2] \div 2)))
                <= PINNED_RADIUS


(* The tick reaches the range check of the chase for monster id of the room: the monster
   is alive, chasing, out of its knockback, within the chase timeout, its target is in
   the room, and it is CHASE_RANGE or more away from spawnX *)
Outran(mapId, id) ==
    LET monster == mapMonsters[mapId][id]
    IN /\ ~monster.isDead
       /\ monster.aiType # "static"
       /\ ~(monster.knockbackEndTime # 0 /\ now < monster.knockbackEndTime)
       /\ monster.aiState = "chasing"
       /\ now - monster.lastInteractionTime <= CHASE_TIMEOUT
       /\ monster.targetPlayer # ""
       /\ Has(RoomOf(St, mapId), monster.targetPlayer)
       /\ Abs(monster.x - monster.spawnX) >= CHASE_RANGE

(* C21: a tick that finds a chasing monster CHASE_RANGE or more away from its spawnX
   leaves it patrolling, without target, where it was, with spawnX at its x and with
   patrol bounds that contain its x *)
C21_OutrunDemotedInPlace ==
    [][last'.op = "tick"
       => \A mapId \in DOMAIN mapMonsters :
             \A id \in DOMAIN mapMonsters[mapId] :
                Outran(mapId, id)
                => LET monster == mapMonsters'[mapId][id]
                   IN /\ monster.aiState = "patrolling"
                      /\ monster.targetPlayer = ""
                      /\ monster.x = mapMonsters[mapId][id].x
                      /\ monster.spawnX = monster.x
                      /\ monster.patrolMinX <= monster.x
                      /\ monster.x <= monster.patrolMaxX]_vars


(* C22: no monster of a room whose map id begins with dewdrop or pq is an elite, and no
   monsterTransformedElite goes to such a room *)
C22_NoEliteOnExcludedMap ==
    /\ \A mapId \in DOMAIN mapMonsters :
          IsExcludedMap(mapId)
          => \A id \in DOMAIN mapMonsters[mapId] : ~mapMonsters[mapId][id].isEliteMonster
    /\ \A i \in Events("monsterTransformedElite") : ~IsExcludedMap(out[i].map)


(* monsterKilled was broadcast for monster m *)
Killed(m) == hist.killed[m] >= 1

(* The monsters of all rooms that are dead, as <<mapId, id>> *)
Corpses ==
    {k \in (DOMAIN mapMonsters) \X MonsterIds :
        Has(mapMonsters[k[1]], k[2]) /\ mapMonsters[k[1]][k[2]].isDead}

(* C23: a tick changes no dead monster; no monsterPositions and no currentMonsters names
   a monster that was killed; an attack on a monster that was killed changes no monster
   and no ledger and produces no monsterDamaged; monsterKilled is broadcast at most once
   for a monster id *)
C23_KilledIsInert ==
    [][/\ last'.op = "tick"
          => \A k \in Corpses :
                /\ Has(mapMonsters', k[1]) /\ Has(mapMonsters'[k[1]], k[2])
                /\ mapMonsters'[k[1]][k[2]] = mapMonsters[k[1]][k[2]]
       /\ \A i \in 1..Len(out') :
             out'[i].ev \in {"monsterPositions", "currentMonsters"}
             => \A m \in out'[i].ids : ~Killed(m)'
       /\ (last'.op = "attackMonster" /\ Killed(last'.id))
          => /\ mapMonsters' = mapMonsters
             /\ monsterDamage' = monsterDamage
             /\ \A i \in 1..Len(out') : out'[i].ev \notin {"monsterDamaged", "monsterKilled"}
       /\ \A m \in MonsterIds : hist'.killed[m] <= 1]_vars

(* A tick of the AI loop while the corpse of a chasing monster lies in a room with players,
   at a later time than the kill *)
C23_Witness ==
    /\ last.op = "tick"
    /\ \E k \in Corpses :
          /\ Killed(k[2])
          /\ mapMonsters[k[1]][k[2]].aiState = "chasing"
          /\ mapMonsters[k[1]][k[2]].lastUpdate < now
          /\ DOMAIN RoomOf(St, k[1]) # {}


(* Player o of room m has not been heard of for longer than PLAYER_TIMEOUT *)
Stale(m, o) ==
    /\ Has(maps, m)
    /\ Has(maps[m], o)
    /\ now - maps[m][o].lastUpdate > PLAYER_TIMEOUT

(* C24: a stale player does not stay: it is removed from its room (unless it is heard of
   again), and the sweep that finds it removes it and broadcasts playerLeft with its
   odId *)
C24_StaleEventuallyRemoved ==
    /\ \A m \in MapIds, o \in OdIds : Stale(m, o) ~> ~Stale(m, o)
    /\ [][last'.op = "sweep"
          => \A m \in MapIds, o \in OdIds :
                Stale(m, o)
                => /\ ~Has(RoomOf(St, m), o)'
                   /\ \E i \in 1..Len(out') :
                         /\ out'[i].ev = "playerLeft"
                         /\ out'[i].odId = o
                         /\ out'[i].map = m]_vars

(* A sweep removed a stale player and left a player who had moved since *)
C24_Witness ==
    /\ last.op = "sweep"
    /\ \E i \in Events("playerLeft") :
          /\ ~Has(RoomOf(St, out[i].map), out[i].odId)
          /\ DOMAIN RoomOf(St, out[i].map) # {}


(* C25: of the position updates a player sends within one rate-limit window, those after
   the first 30 are dropped: they are not applied to the player record and not relayed.
   (In SpecBurst the update with x = n + 1 is the n-th of its player, and all are sent at
   the same instant.) *)
C25_ThirtyMovesPerWindow ==
    (/\ last.op = "updatePosition"
     /\ currentPlayer[last.socket].odId # ""
     /\ last.id > MAX_POSITION_UPDATES_PER_SECOND + 1)
    => /\ Events("playerMoved") = {}
       /\ currentPlayer[last.socket].x <= MAX_POSITION_UPDATES_PER_SECOND + 1


(* C26: after join, disconnect of that connection and join with the same odId, name and
   mapId, served one after the other, the room state of the map is what it was after the
   first join, up to timestamps and connection ids *)
C26_JoinLeaveJoinRestoresRoom ==
    (last.op = "join" /\ last.phase = 2)
    => <<RoomSnapshot(St, last.map, last.socket)>> = last.snap


(* What the validated damage of d is to be: 0 unless d is a finite number >= 0, and then
   the floor of the smaller of d and the cap *)
Validated(d) ==
    IF d.kind = "num" /\ d.half >= 0 THEN Min(d.half, 2 * MAX_DAMAGE_PER_HIT) \div 2 ELSE 0

(* C27: an attack that the rate limiter lets through to a live monster is applied with
   damage 0 when the asserted damage is not a finite number >= 0, and with the floor of
   min(d, 50000) otherwise; when that is 0 the attack changes no monster and no ledger
   and emits nothing *)
C27_ValidatedDamage ==
    [][(/\ last'.op = "attackMonster"
        /\ last'.result \in {"null", "hit", "killed", "correction"}
        /\ Alive(last'.id)
        /\ HasPlayer(St, last'.socket)
        /\ Has(mapMonsters, currentMapId[last'.socket])
        /\ Has(mapMonsters[currentMapId[last'.socket]], last'.id))
       => IF Validated(last'.damage) = 0
          THEN out' = <<>> /\ mapMonsters' = mapMonsters /\ monsterDamage' = monsterDamage
          ELSE \E i \in 1..Len(out') :
                  /\ out'[i].ev = "monsterDamaged"
                  /\ out'[i].id = last'.id
                  /\ out'[i].n = Validated(last'.damage)]_vars


(* The sweep is about to remove the player of connection c: the record of its player in
   its room is stale *)
Swept(c) ==
    /\ HasPlayer(St, c)
    /\ Aliased(St, c)
    /\ Stale(currentMapId[c], currentPlayer[c].odId)

(* C28: the sweep leaves the connection of a player it removes as a disconnect would:
   the player absent from the room, the connection unsubscribed from the room and without
   a player to act with, the odId without socket mapping and without rate buckets *)
C28_SweptAsDisconnected ==
    [][last'.op = "sweep"
       => \A c \in Sockets :
             Swept(c)
             => /\ ~Has(RoomOf(St, currentMapId[c])', currentPlayer[c].odId)
                /\ c \notin rooms'[currentMapId[c]]
                /\ ~HasPlayer(St, c)'
                /\ ~Has(playerSockets', currentPlayer[c].odId)
                /\ ~Has(rateLimiters', currentPlayer[c].odId)]_vars


(* The pending timers of killMonster for monster id of room mapId *)
TimersOf(mapId, id) == {t \in timers : t.mapId = mapId /\ t.monsterId = id}

(* The monsters of room mapId that the step added *)
Born(mapId) ==
    IF Has(mapMonsters', mapId)
    THEN DOMAIN mapMonsters'[mapId] \ (IF Has(mapMonsters, mapId) THEN DOMAIN mapMonsters[mapId]
                                       ELSE {})
    ELSE {}

(* C29: the timer of a monster killed on a map that is not a party-quest map fires
   RESPAWN_TIME after the kill (BOSS_RESPAWN_TIME for a mini-boss); when it fires while
   the room exists and has a player, the corpse is removed, and one live monster of the
   type of the dead one is added, with a fresh id, and announced by one monsterSpawned *)
C29_RespawnsOne ==
    [][\A mapId \in MapIds :
          (/\ last'.op = "timer"
           /\ last'.map = mapId
           /\ ~StartsWith(mapId, PqPrefix)
           /\ Has(mapMonsters, mapId)
           /\ DOMAIN RoomOf(St, mapId) # {})
          => /\ ~Has(mapMonsters'[mapId], last'.id)
             /\ Born(mapId) = {nextMonsterId}
             /\ \A id \in Born(mapId) :
                   /\ ~mapMonsters'[mapId][id].isDead
                   /\ \A t \in TimersOf(mapId, last'.id) :
                         /\ t.kind = "respawn"
                         /\ mapMonsters'[mapId][id].type = t.type
                   /\ Has(mapMonsters[mapId], last'.id)
                      => /\ mapMonsters[mapId][last'.id].isDead
                         /\ mapMonsters'[mapId][id].type = mapMonsters[mapId][last'.id].type
                         /\ \A t \in TimersOf(mapId, last'.id) :
                               t.fireAt = mapMonsters[mapId][last'.id].lastUpdate
                                          + (IF mapMonsters[mapId][last'.id].isMiniBoss
                                             THEN BOSS_RESPAWN_TIME ELSE RESPAWN_TIME)
                   /\ Cardinality({i \in 1..Len(out') :
                                     out'[i].ev = "monsterSpawned" /\ out'[i].id = id}) = 1
             /\ Len(out') = 1]_vars

(* The replacement of a mini-boss was announced to a room of two, five minutes after the
   kill *)
C29_Witness ==
    /\ last.op = "timer"
    /\ now = BOSS_RESPAWN_TIME
    /\ \E i \in Events("monsterSpawned") :
          /\ out[i].to = Sockets
          /\ out[i].id > 1
          /\ mapMonsters[out[i].map][out[i].id].isMiniBoss
          /\ ~Has(mapMonsters[out[i].map], last.id)


(* C30: the monster a respawn adds starts with x inside the surface the dead one had
   remembered, so inside its own patrol range *)
C30_RebornOnSurface ==
    [][\A mapId \in MapIds : \A t \in TimersOf(mapId, last'.id) :
          (last'.op = "timer" /\ last'.map = mapId /\ t.kind = "respawn")
          => \A id \in Born(mapId) :
                LET monster == mapMonsters'[mapId][id]
                IN /\ monster.x >= t.data.surface[1]
                   /\ monster.x <= t.data.surface[1] + t.data.surface[2]
                   /\ monster.x >= monster.patrolMinX
                   /\ monster.x <= monster.patrolMaxX]_vars


(* The monsters of room mapId that are alive, and the killed ones a respawn timer waits
   for *)
Living(mapId) == {id \in DOMAIN mapMonsters[mapId] : ~mapMonsters[mapId][id].isDead}
Awaited(mapId) ==
    {id \in DOMAIN mapMonsters[mapId] :
        /\ mapMonsters[mapId][id].isDead
        /\ \E t \in TimersOf(mapId, id) : t.kind = "respawn"}

(* C31: in a room outside the party-quest prefix that has had a player ever since its
   monsters were initialised, the live monsters and the killed ones awaiting respawn
   are as many as the initialisation spawned *)
C31_PopulationConserved ==
    \A mapId \in MapIds :
       (~StartsWith(mapId, PqPrefix) /\ IsDef(hist.census[mapId]))
       => /\ Has(mapMonsters, mapId)
          /\ Cardinality(Living(mapId)) + Cardinality(Awaited(mapId)) = hist.census[mapId][1]


(* C32: a connection that has disconnected is not in the GM session set, whether or not
   it had joined a map *)
C32_NoGmSessionAfterDisconnect ==
    \A c \in Sockets : connected[c] = "closed" => c \notin authorizedGMs


(* The live monster id of room mapId chases a player who is not in the room *)
Deserted(mapId, id) ==
    LET monster == mapMonsters[mapId][id]
    IN /\ ~monster.isDead
       /\ monster.aiState = "chasing"
       /\ monster.targetPlayer # ""
       /\ ~Has(RoomOf(St, mapId), monster.targetPlayer)

(* C33: a tick that finds a chasing monster whose target player is not in the room
   leaves it patrolling, without target, where it was *)
C33_DesertedDemoted ==
    [][last'.op = "tick"
       => \A mapId \in DOMAIN mapMonsters :
             \A id \in DOMAIN mapMonsters[mapId] :
                Deserted(mapId, id)
                => LET monster == mapMonsters'[mapId][id]
                   IN /\ monster.aiState = "patrolling"
                      /\ monster.targetPlayer = ""
                      /\ monster.x = mapMonsters[mapId][id].x]_vars


(* The live monster id of room mapId has been chasing since an attack more than
   CHASE_TIMEOUT ago, and is not frozen by a knockback *)
Overdue(mapId, id) ==
    /\ Has(mapMonsters, mapId)
    /\ Has(mapMonsters[mapId], id)
    /\ LET monster == mapMonsters[mapId][id]
       IN /\ ~monster.isDead
          /\ monster.aiType # "static"
          /\ monster.aiState = "chasing"
          /\ now - monster.lastInteractionTime > CHASE_TIMEOUT
          /\ ~(monster.knockbackEndTime # 0 /\ now < monster.knockbackEndTime)

SomeOverdue == \E mapId \in MapIds, id \in MonsterIds : Overdue(mapId, id)

(* C34: while the AI loop ticks, a monster that an attack put into chasing more than
   CHASE_TIMEOUT ago does not stay chasing unless it is attacked again: the first tick
   outside the knockback freeze leaves it patrolling without target *)
C34_ChaseTimesOut ==
    /\ (SomeOverdue /\ hist.ticks < MaxTicks) ~> ~SomeOverdue
    /\ [][last'.op = "tick"
          => \A mapId \in MapIds, id \in MonsterIds :
                Overdue(mapId, id)
                => /\ mapMonsters'[mapId][id].aiState = "patrolling"
                   /\ mapMonsters'[mapId][id].targetPlayer = ""]_vars

(* A tick ended a chase whose target had left the room *)
C34_Witness ==
    /\ last.op = "tick"
    /\ now > CHASE_TIMEOUT
    /\ Has(mapMonsters, Town)
    /\ \E id \in DOMAIN mapMonsters[Town] :
          LET monster == mapMonsters[Town][id]
          IN /\ monster.aiState = "patrolling"
             /\ monster.targetPlayer = ""
             /\ monster.lastInteractionTime = 0
             /\ monster.lastUpdate = now
             /\ monster.hp < monster.maxHp
             /\ DOMAIN RoomOf(St, Town) # {}
             /\ \E c \in Sockets : connected[c] = "closed"


(* C35: an attack that is applied moves its monster by no more than the knockback
   distance, wherever the monster stands *)
C35_KnockbackAtMostThirty ==
    [][(last'.op = "attackMonster" /\ last'.result \in {"hit", "correction", "killed"})
       => \A mapId \in DOMAIN mapMonsters :
             (Has(mapMonsters[mapId], last'.id) /\ Has(mapMonsters', mapId))
             => Abs(mapMonsters'[mapId][last'.id].x - mapMonsters[mapId][last'.id].x)
                   <= KNOCKBACK_FORCE * KNOCKBACK_TICKS]_vars


(* The live elites of room mapId *)
Elites(mapId) ==
    {id \in DOMAIN mapMonsters[mapId] :
        ~mapMonsters[mapId][id].isDead /\ mapMonsters[mapId][id].isEliteMonster}

(* C36: no room has more than one live elite *)
C36_OneElitePerRoom ==
    \A mapId \in DOMAIN mapMonsters : Cardinality(Elites(mapId)) <= 1

(* C37: the elite pointer of a map, when set, names a live elite of the room of that
   map; it is not set for a map without a room *)
C37_ElitePointerLive ==
    \A mapId \in DOMAIN currentEliteMonsters :
       /\ Has(mapMonsters, mapId)
       /\ currentEliteMonsters[mapId] \in Elites(mapId)


(* The monsters and the recorded map data of room mapId, each <<>> when there is none *)
Surveyed(mapId) ==
    <<IF Has(mapMonsters, mapId) THEN <<mapMonsters[mapId]>> ELSE <<>>,
      IF Has(mapSpawnData, mapId) THEN <<mapSpawnData[mapId]>> ELSE <<>>>>

(* C38: an initMapMonsters changes the monsters and the recorded map data of no map but
   the one its sender is in *)
C38_InitOnlyOwnMap ==
    [][last'.op = "initMapMonsters"
       => \A mapId \in MapIds :
             mapId # currentMapId[last'.socket] => Surveyed(mapId)' = Surveyed(mapId)]_vars

(* C39: an initMapMonsters for a map whose monsters are initialised spawns no monster and
   leaves the recorded topology and catalog of monster types as they were *)
C39_InitOnce ==
    [][\A mapId \in MapIds :
          (last'.op = "initMapMonsters" /\ last'.map = mapId /\ Has(mapMonsters, mapId))
          => /\ nextMonsterId' = nextMonsterId
             /\ Surveyed(mapId)' = Surveyed(mapId)]_vars


(* The drops with the given name among the drop ids of a monsterKilled broadcast, as the
   ground items of room mapId register them after the step *)
Dropped(mapId, ids, name) ==
    {d \in ids : /\ Has(mapGroundItems', mapId)
                 /\ Has(mapGroundItems'[mapId], d)
                 /\ mapGroundItems'[mapId][d].name = name}

(* C40: the kill of an elite broadcasts monsterKilled with drops that are registered as
   ground items of the room, among them at least one Gold, two to five Gachapon Tickets
   and four to eight Enhancement Scrolls *)
C40_EliteDrops ==
    [][\A mapId \in MapIds :
          (/\ last'.op = "attackMonster"
           /\ last'.result = "killed"
           /\ currentMapId[last'.socket] = mapId
           /\ mapMonsters[mapId][last'.id].isEliteMonster)
          => \E i \in 1..Len(out') :
                /\ out'[i].ev = "monsterKilled"
                /\ out'[i].id = last'.id
                /\ Has(mapGroundItems', mapId)
                /\ out'[i].ids \subseteq DOMAIN mapGroundItems'[mapId]
                /\ Cardinality(Dropped(mapId, out'[i].ids, "Gold")) >= 1
                /\ Cardinality(Dropped(mapId, out'[i].ids, "Gachapon Ticket")) \in 2..5
                /\ Cardinality(Dropped(mapId, out'[i].ids, "Enhancement Scroll")) \in 4..8]_vars

====
